---- MODULE Spec2Model ----
(***************************************************************************)
(* Draft lifecycle and publishing state machine of the telegram social     *)
(* agent: entries, versioned drafts, the publish log, the undo log and the *)
(* orchestrator operations that act on them.                               *)
(*                                                                         *)
(* Texts are sequences of one-character strings.  Timestamps are the       *)
(* positive integers (the UTC ISO strings the code compares, in their      *)
(* order); a NULL scheduled_at is NoTime.                                  *)
(***************************************************************************)
EXTENDS Integers, Sequences, FiniteSets, TLC

VARIABLES
    entries,          \* table entries: id -> row
    drafts,           \* table drafts: id -> row
    publish_logs,     \* table publish_logs: rows in id order
    undo_actions,     \* table undo_actions: rows in id order (row i has id i)
    sqlite_sequence,  \* AUTOINCREMENT high-water mark of each table
    client_calls,     \* what the platform clients were asked to publish, in order
    llm_calls,        \* table llm_calls: rows in id order
    router_calls,     \* the router.generate calls of the last orchestrator call, in order
    provider_calls,   \* the provider.generate calls the router made, in order
    sessions,         \* table sessions: the capture-session rows
    user_states,      \* table user_states: the rows
    created_drafts,   \* history: every draft row ever inserted, by id
    schema,           \* the tables of the database file and its schema_migrations rows
    legacy,           \* the database and client calls of the legacy pipeline (src/core)
    config,           \* the settings object handed to every orchestrator call
    publishers,       \* where each process stands inside publish_draft
    last              \* the last orchestrator call and what it returned

vars == <<entries, drafts, publish_logs, undo_actions, sqlite_sequence,
          client_calls, llm_calls, router_calls, provider_calls, sessions,
          user_states, created_drafts, schema, legacy, config,
          publishers, last>>

----------------------------------------------------------------------------
(* Bounds of the model *)

\* entry ids handed out in one behaviour of SpecIngest
MaxEntries == 3

\* undo log rows and platform client invocations in one behaviour of SpecPublish
MaxPublishUndo == 4

MaxPublishCalls == 2

\* undo log rows and platform client invocations in one behaviour of SpecSweep
MaxSweepUndo == 5

MaxSweepCalls == 3

\* undo log rows and platform client invocations in one behaviour of SpecRace
MaxRaceUndo == 3

MaxRaceCalls == 2

\* undo log rows in one behaviour of SpecUndo
MaxUndoLog == 4

\* draft ids handed out in one behaviour of SpecDraft
MaxDrafts == 2

MaxDraftCalls == 1

----------------------------------------------------------------------------
(* Fixed enumerations *)

PLATFORMS == <<"x", "threads", "linkedin">>

PlatformSet == {PLATFORMS[i] : i \in 1..Len(PLATFORMS)}

Statuses == {"pending", "approved", "rejected", "scheduled", "published"}

Users == {"u1", "u2"}

\* scheduled_at IS NULL
NoTime == 0

\* an id no row has (Python's None / 0 for a missing id)
NoId == 0

----------------------------------------------------------------------------
(* Text helpers: str.strip, str.lower, str.split, " ".join *)

IsSpace(c) == c \in {" ", "\n"}

LowerChar(c) ==
    CASE c = "A" -> "a"
      [] c = "B" -> "b"
      [] c = "H" -> "h"
      [] c = "P" -> "p"
      [] OTHER -> c

lower(s) == [i \in 1..Len(s) |-> LowerChar(s[i])]

RECURSIVE lstrip(_)
lstrip(s) ==
    IF s = <<>> THEN <<>>
    ELSE IF IsSpace(Head(s)) THEN lstrip(Tail(s)) ELSE s

RECURSIVE rstrip(_)
rstrip(s) ==
    IF s = <<>> THEN <<>>
    ELSE IF IsSpace(s[Len(s)]) THEN rstrip(SubSeq(s, 1, Len(s) - 1)) ELSE s

strip(s) == rstrip(lstrip(s))

\* " ".join(s.split()): words separated by exactly one blank
RECURSIVE join_split(_)
join_split(s) ==
    LET t == lstrip(s) IN
    IF t = <<>> THEN <<>>
    ELSE LET n    == CHOOSE k \in 1..Len(t) :
                        /\ \A i \in 1..k : ~IsSpace(t[i])
                        /\ (k = Len(t) \/ IsSpace(t[k + 1]))
             word == SubSeq(t, 1, n)
             rest == join_split(SubSeq(t, n + 1, Len(t)))
         IN IF rest = <<>> THEN word ELSE word \o <<" ">> \o rest

normalized(text) == join_split(lower(strip(text)))

\* str.split(): the tokens of a text
RECURSIVE split(_)
split(s) ==
    LET t == lstrip(s) IN
    IF t = <<>> THEN <<>>
    ELSE LET n == CHOOSE k \in 1..Len(t) :
                     /\ \A i \in 1..k : ~IsSpace(t[i])
                     /\ (k = Len(t) \/ IsSpace(t[k + 1]))
         IN <<SubSeq(t, 1, n)>> \o split(SubSeq(t, n + 1, Len(t)))

\* separator.join(parts)
RECURSIVE join(_, _)
join(separator, parts) ==
    IF parts = <<>> THEN <<>>
    ELSE IF Len(parts) = 1 THEN parts[1]
    ELSE parts[1] \o separator \o join(separator, Tail(parts))

----------------------------------------------------------------------------
(* directives.py *)

RECURSIVE rstrip_commas(_)
rstrip_commas(s) ==
    IF s = <<>> THEN <<>>
    ELSE IF s[Len(s)] = "," THEN rstrip_commas(SubSeq(s, 1, Len(s) - 1)) ELSE s

\* the platform a token names, aliases included, or "" (None)
normalize_platform(token) ==
    LET clean == rstrip_commas(lower(strip(token))) IN
    CASE clean \in {<<"x">>, <<"t", "w", "i", "t", "t", "e", "r">>} -> "x"
      [] clean \in {<<"t", "h", "r", "e", "a", "d", "s">>,
                    <<"t", "h", "r", "e", "a", "d">>} -> "threads"
      [] clean \in {<<"l", "i", "n", "k", "e", "d", "i", "n">>, <<"l", "i">>} -> "linkedin"
      [] OTHER -> ""

RECURSIVE parse_each_arg(_, _)
parse_each_arg(args, parsed) ==
    IF args = <<>> THEN parsed
    ELSE LET platform == normalize_platform(Head(args)) IN
         parse_each_arg(Tail(args),
             IF platform # "" /\ \A i \in DOMAIN parsed : parsed[i] # platform
             THEN Append(parsed, platform) ELSE parsed)

parse_platform_args(args, default_platforms) ==
    LET parsed == parse_each_arg(args, <<>>) IN
    IF parsed # <<>> THEN parsed ELSE default_platforms

NoFlags ==
    [private |-> FALSE, strict |-> FALSE, draft |-> FALSE, publish |-> FALSE,
     publish_platforms |-> <<>>]

\* the while loop of parse_directives; after_publish is the inner loop that
\* takes the platform tokens behind #publish
RECURSIVE parse_tokens(_, _, _, _)
parse_tokens(tokens, kept_tokens, flags, after_publish) ==
    IF tokens = <<>> THEN [kept_tokens |-> kept_tokens, flags |-> flags]
    ELSE
    LET token    == Head(tokens)
        rest     == Tail(tokens)
        low      == lower(token)
        platform == normalize_platform(token)
    IN IF after_publish /\ platform # ""
       THEN parse_tokens(rest, kept_tokens,
                [flags EXCEPT !.publish_platforms =
                    IF \E i \in DOMAIN @ : @[i] = platform THEN @ ELSE Append(@, platform)],
                TRUE)
       ELSE IF low = <<"#", "d", "r", "a", "f", "t">>
       THEN parse_tokens(rest, kept_tokens, [flags EXCEPT !.draft = TRUE], FALSE)
       ELSE IF low = <<"#", "p", "r", "i", "v", "a", "t", "e">>
       THEN parse_tokens(rest, kept_tokens, [flags EXCEPT !.private = TRUE], FALSE)
       ELSE IF low = <<"#", "s", "t", "r", "i", "c", "t">>
       THEN parse_tokens(rest, kept_tokens, [flags EXCEPT !.strict = TRUE], FALSE)
       ELSE IF low = <<"#", "p", "u", "b", "l", "i", "s", "h">>
       THEN parse_tokens(rest, kept_tokens, [flags EXCEPT !.publish = TRUE], TRUE)
       ELSE parse_tokens(rest, Append(kept_tokens, token), flags, FALSE)

parse_directives(text) ==
    LET parsed == parse_tokens(split(text), <<>>, NoFlags, FALSE) IN
    [cleaned_text |-> strip(join(<<" ">>, parsed.kept_tokens)), flags |-> parsed.flags]

\* sha256 is taken to be collision free: the digest stands for its preimage
sha256(s) == <<"sha256">> \o s

hash_text_no_lower(text) == sha256(join_split(strip(text)))

hash_text(text) == sha256(normalized(text))

prefix(s, n) == SubSeq(s, 1, IF n < Len(s) THEN n ELSE Len(s))

----------------------------------------------------------------------------
(* The database as one value, so that operations compose *)

\* models.py: the migrations, each with the tables its script creates
MIGRATIONS ==
    << [version |-> 1,
        tables  |-> {"schema_migrations", "entries", "drafts", "publish_logs",
                     "llm_calls", "sessions", "settings"}],
       [version |-> 2,
        tables  |-> {"user_states", "undo_actions"}] >>

\* a database file: its tables, the rows of schema_migrations, and (history)
\* the versions whose script was executed, in order
NewFile == [tables |-> {}, schema_migrations |-> <<>>, executed |-> <<>>]

RECURSIVE apply_each(_, _, _)
apply_each(db, applied, migrations) ==
    IF migrations = <<>> THEN db
    ELSE LET m == Head(migrations) IN
         IF m.version \in applied
         THEN apply_each(db, applied, Tail(migrations))
         ELSE apply_each([db EXCEPT !.tables = @ \cup m.tables,
                                    !.schema_migrations = Append(@, m.version),
                                    !.executed = Append(@, m.version)],
                         applied, Tail(migrations))

apply_migrations_unchecked(db) ==
    apply_each([db EXCEPT !.tables = @ \cup {"schema_migrations"}], {}, MIGRATIONS)

apply_migrations(db) ==
    LET created == [db EXCEPT !.tables = @ \cup {"schema_migrations"}]
        applied == {db.schema_migrations[i] : i \in DOMAIN db.schema_migrations}
    IN apply_each(created, applied, MIGRATIONS)

\* the legacy database (posts, publish_logs) and the legacy client calls
NoPosts == [posts |-> <<>>, publish_logs |-> <<>>, client_calls |-> <<>>, clock |-> 0]

World ==
    [entries         |-> entries,
     drafts          |-> drafts,
     publish_logs    |-> publish_logs,
     undo_actions    |-> undo_actions,
     sqlite_sequence |-> sqlite_sequence,
     client_calls    |-> client_calls,
     llm_calls       |-> llm_calls,
     router_calls    |-> router_calls,
     provider_calls  |-> provider_calls,
     sessions        |-> sessions,
     user_states     |-> user_states,
     created_drafts  |-> created_drafts,
     schema          |-> schema,
     legacy          |-> legacy]

EmptyWorld ==
    [entries         |-> <<>>,
     drafts          |-> <<>>,
     publish_logs    |-> <<>>,
     undo_actions    |-> <<>>,
     sqlite_sequence |-> [entries |-> 0, drafts |-> 0, publish_logs |-> 0],
     client_calls    |-> <<>>,
     llm_calls       |-> <<>>,
     router_calls    |-> <<>>,
     provider_calls  |-> <<>>,
     sessions        |-> {},
     user_states     |-> {},
     created_drafts  |-> <<>>,
     schema          |-> apply_migrations(NewFile),
     legacy          |-> NoPosts]

Commit(w) ==
    /\ entries' = w.entries
    /\ drafts' = w.drafts
    /\ publish_logs' = w.publish_logs
    /\ undo_actions' = w.undo_actions
    /\ sqlite_sequence' = w.sqlite_sequence
    /\ client_calls' = w.client_calls
    /\ llm_calls' = w.llm_calls
    /\ router_calls' = w.router_calls
    /\ provider_calls' = w.provider_calls
    /\ sessions' = w.sessions
    /\ user_states' = w.user_states
    /\ created_drafts' = w.created_drafts
    /\ schema' = w.schema
    /\ legacy' = w.legacy

WithoutKey(f, k) == [i \in DOMAIN f \ {k} |-> f[i]]

RECURSIVE SelectRows(_, _)
SelectRows(rows, keep) ==
    IF rows = <<>> THEN <<>>
    ELSE IF Head(rows).draft_id \in keep
         THEN <<Head(rows)>> \o SelectRows(Tail(rows), keep)
         ELSE SelectRows(Tail(rows), keep)

----------------------------------------------------------------------------
(* models.py: data access helpers *)

get_entry_by_hash_any_user(w, user_id, text_hash) ==
    LET ids == {i \in DOMAIN w.entries : w.entries[i].text_hash = text_hash}
    IN IF ids = {} THEN NoId ELSE CHOOSE i \in ids : TRUE

get_entry_by_hash(w, user_id, text_hash) ==
    LET ids == {i \in DOMAIN w.entries :
                    /\ w.entries[i].user_id = user_id
                    /\ w.entries[i].text_hash = text_hash}
    IN IF ids = {} THEN NoId ELSE CHOOSE i \in ids : TRUE

create_entry(w, user_id, text, text_hash, flags) ==
    LET id == w.sqlite_sequence.entries + 1 IN
    [w EXCEPT !.entries = w.entries @@
                  (id :> [user_id |-> user_id, text |-> text, text_hash |-> text_hash,
                          flags |-> flags]),
              !.sqlite_sequence.entries = id]

undo_action_not_recorded(w, user_id, action_type, payload) == w

create_undo_action(w, user_id, action_type, payload) ==
    [w EXCEPT !.undo_actions = Append(w.undo_actions,
                  [user_id     |-> user_id,
                   action_type |-> action_type,
                   payload     |-> payload,
                   undone      |-> FALSE])]

\* id of the newest action of the user that is not undone, or NoId
get_oldest_undo_action(w, user_id) ==
    LET ids == {i \in DOMAIN w.undo_actions :
                    /\ w.undo_actions[i].user_id = user_id
                    /\ ~w.undo_actions[i].undone}
    IN IF ids = {} THEN NoId ELSE CHOOSE i \in ids : \A j \in ids : i <= j

get_last_supported_undo_action(w, user_id) ==
    LET ids == {i \in DOMAIN w.undo_actions :
                    /\ w.undo_actions[i].user_id = user_id
                    /\ ~w.undo_actions[i].undone
                    /\ w.undo_actions[i].action_type
                          \in {"entry_create", "draft_create", "draft_status_update"}}
    IN IF ids = {} THEN NoId ELSE CHOOSE i \in ids : \A j \in ids : j <= i

get_last_undo_action(w, user_id) ==
    LET ids == {i \in DOMAIN w.undo_actions :
                    /\ w.undo_actions[i].user_id = user_id
                    /\ ~w.undo_actions[i].undone}
    IN IF ids = {} THEN NoId ELSE CHOOSE i \in ids : \A j \in ids : j <= i

mark_undo_action_done(w, action_id) ==
    [w EXCEPT !.undo_actions[action_id].undone = TRUE]

update_draft_status(w, draft_id, status, scheduled_at) ==
    IF draft_id \in DOMAIN w.drafts
    THEN [w EXCEPT !.drafts[draft_id].status = status,
                   !.drafts[draft_id].scheduled_at = scheduled_at]
    ELSE w

\* DELETE FROM drafts; publish_logs.draft_id is ON DELETE CASCADE
delete_draft_keep_logs(w, draft_id) ==
    [w EXCEPT !.drafts = WithoutKey(w.drafts, draft_id)]

delete_draft(w, draft_id) ==
    LET left == DOMAIN w.drafts \ {draft_id} IN
    [w EXCEPT !.drafts = WithoutKey(w.drafts, draft_id),
              !.publish_logs = SelectRows(w.publish_logs, left)]

\* DELETE FROM entries; drafts.entry_id is ON DELETE CASCADE, and so on down
delete_nothing(w, entry_id) == w

delete_entry(w, entry_id) ==
    LET left == {d \in DOMAIN w.drafts : w.drafts[d].entry_id # entry_id} IN
    [w EXCEPT !.entries = WithoutKey(w.entries, entry_id),
              !.drafts = [d \in left |-> w.drafts[d]],
              !.publish_logs = SelectRows(w.publish_logs, left)]

\* versions of the drafts of one entry and platform
draft_versions(w, entry_id, platform) ==
    {w.drafts[d].version : d \in {i \in DOMAIN w.drafts :
                                      /\ w.drafts[i].entry_id = entry_id
                                      /\ w.drafts[i].platform = platform}}

get_next_draft_version(w, entry_id, platform) ==
    LET vs == draft_versions(w, entry_id, platform) IN
    (IF vs = {} THEN 0 ELSE CHOOSE v \in vs : \A u \in vs : u <= v) + 1

create_draft(w, entry_id, platform, content, status, summary, strict) ==
    LET id == w.sqlite_sequence.drafts + 1 IN
    [w EXCEPT !.drafts = w.drafts @@
                  (id :> [entry_id     |-> entry_id,
                          platform     |-> platform,
                          content      |-> content,
                          status       |-> status,
                          scheduled_at |-> NoTime,
                          summary      |-> summary,
                          strict       |-> strict,
                          version      |-> get_next_draft_version(w, entry_id, platform)]),
              !.sqlite_sequence.drafts = id,
              !.created_drafts = Append(w.created_drafts,
                  [entry_id |-> entry_id, platform |-> platform,
                   version  |-> get_next_draft_version(w, entry_id, platform)])]

create_publish_log_as_failure(w, draft_id, platform, success, error) ==
    LET id == w.sqlite_sequence.publish_logs + 1 IN
    [w EXCEPT !.publish_logs = Append(w.publish_logs,
                  [id       |-> id,
                   draft_id |-> draft_id,
                   platform |-> platform,
                   success  |-> FALSE,
                   error    |-> error]),
              !.sqlite_sequence.publish_logs = id]

create_publish_log(w, draft_id, platform, success, error) ==
    LET id == w.sqlite_sequence.publish_logs + 1 IN
    [w EXCEPT !.publish_logs = Append(w.publish_logs,
                  [id       |-> id,
                   draft_id |-> draft_id,
                   platform |-> platform,
                   success  |-> success,
                   error    |-> error]),
              !.sqlite_sequence.publish_logs = id]

\* ids of a set of drafts ordered by (scheduled_at, id) ascending
RECURSIVE order_by_scheduled_at_id(_, _)
order_by_scheduled_at_id(w, ids) ==
    IF ids = {} THEN <<>>
    ELSE LET first == CHOOSE d \in ids : \A e \in ids :
                          \/ w.drafts[d].scheduled_at < w.drafts[e].scheduled_at
                          \/ /\ w.drafts[d].scheduled_at = w.drafts[e].scheduled_at
                             /\ d <= e
         IN <<first>> \o order_by_scheduled_at_id(w, ids \ {first})

\* ids of a set of rows ordered by id descending
RECURSIVE order_by_id_desc(_)
order_by_id_desc(ids) ==
    IF ids = {} THEN <<>>
    ELSE LET first == CHOOSE d \in ids : \A e \in ids : e <= d
         IN <<first>> \o order_by_id_desc(ids \ {first})

list_overdue_scheduled_drafts(w, now) ==
    order_by_scheduled_at_id(w,
        {d \in DOMAIN w.drafts :
            /\ w.drafts[d].status = "scheduled"
            /\ w.drafts[d].scheduled_at # NoTime
            /\ w.drafts[d].scheduled_at < now})

list_all_scheduled_drafts(w, now) ==
    order_by_scheduled_at_id(w, {d \in DOMAIN w.drafts : w.drafts[d].status = "scheduled"})

list_due_scheduled_drafts(w, now) ==
    order_by_scheduled_at_id(w,
        {d \in DOMAIN w.drafts :
            /\ w.drafts[d].status = "scheduled"
            /\ w.drafts[d].scheduled_at # NoTime
            /\ w.drafts[d].scheduled_at <= now})

list_approved_drafts_of_anyone(w, user_id) ==
    order_by_id_desc({d \in DOMAIN w.drafts : w.drafts[d].status = "approved"})

list_approved_drafts(w, user_id) ==
    order_by_id_desc(
        {d \in DOMAIN w.drafts :
            /\ w.drafts[d].status = "approved"
            /\ w.drafts[d].entry_id \in DOMAIN w.entries
            /\ w.entries[w.drafts[d].entry_id].user_id = user_id})

----------------------------------------------------------------------------
(* validators.py *)

get_limit(cfg, platform) == cfg.platform_limits[platform]

validate_draft(platform, content, cfg) ==
    [ok     |-> Len(content) <= get_limit(cfg, platform),
     length |-> Len(content),
     limit  |-> get_limit(cfg, platform),
     text   |-> content]

Ellipsis == <<".", ".", ".">>

truncate_to_limit_overlong(content, limit) ==
    IF Len(content) <= limit THEN content
    ELSE prefix(content, limit) \o Ellipsis

truncate_to_limit(content, limit) ==
    IF Len(content) <= limit THEN content
    ELSE IF limit <= 3 THEN prefix(content, limit)
    ELSE rstrip(prefix(content, limit - 3)) \o Ellipsis

----------------------------------------------------------------------------
(* models.py: capture sessions and user states *)

\* the rows fetchone() chooses from: none stands for None
get_capture_session(w, user_id) == {s \in w.sessions : s.user_id = user_id}

start_capture_session(w, user_id) ==
    IF get_capture_session(w, user_id) # {}
    THEN [w EXCEPT !.sessions =
             {IF s.user_id = user_id THEN [s EXCEPT !.buffer_text = <<>>] ELSE s : s \in @}]
    ELSE [w EXCEPT !.sessions = @ \cup {[user_id |-> user_id, buffer_text |-> <<>>]}]

append_capture_text_opens(w, user_id, text) ==
    LET w1 == [w EXCEPT !.sessions =
                  {s \in @ : s.user_id # user_id}
                  \cup {[user_id |-> user_id, buffer_text |-> text]}]
    IN [w |-> w1, session |-> get_capture_session(w1, user_id)]

append_capture_text(w, user_id, text) ==
    IF get_capture_session(w, user_id) = {}
    THEN [w |-> w, session |-> {}]
    ELSE LET combined(buffer) == IF buffer # <<>> THEN buffer \o <<"\n">> \o text
                                 ELSE text
             w1 == [w EXCEPT !.sessions =
                       {IF s.user_id = user_id
                        THEN [s EXCEPT !.buffer_text = combined(@)] ELSE s : s \in @}]
         IN [w |-> w1, session |-> get_capture_session(w1, user_id)]

end_capture_session(w, user_id) ==
    IF get_capture_session(w, user_id) = {}
    THEN [w |-> w, session |-> {}]
    ELSE [w       |-> [w EXCEPT !.sessions = {s \in @ : s.user_id # user_id}],
          session |-> get_capture_session(w, user_id)]

\* INSERT ... ON CONFLICT(user_id) DO UPDATE: data is the draft id
set_user_state(w, user_id, state, draft_id) ==
    [w EXCEPT !.user_states =
        {s \in @ : s.user_id # user_id}
        \cup {[user_id |-> user_id, state |-> state, draft_id |-> draft_id]}]

get_user_state(w, user_id) == {s \in w.user_states : s.user_id = user_id}

clear_user_state_of_nobody(w, user_id) == w

clear_user_state(w, user_id) ==
    [w EXCEPT !.user_states = {s \in @ : s.user_id # user_id}]

----------------------------------------------------------------------------
(* What a call returns *)

Result(ok, reason, id) == [ok |-> ok, reason |-> reason, id |-> id, results |-> <<>>]

NoPayload == [ref |-> NoId, previous_status |-> "", previous_scheduled_at |-> NoTime]

NoLast ==
    [op      |-> "none",
     user    |-> "",
     id      |-> NoId,
     text    |-> <<>>,
     force   |-> FALSE,
     clients |-> {},
     now     |-> NoTime,
     ok      |-> FALSE,
     reason  |-> "",
     results |-> <<>>]

----------------------------------------------------------------------------
(* orchestrator.py: ingest_entry *)

\* ingest_entry with the flags of the message
ingest_entry_flags(w, user_id, entry_text, flags) ==
    LET cleaned   == strip(entry_text)
        text_hash == hash_text(cleaned)
        existing  == get_entry_by_hash(w, user_id, text_hash)
        w1        == create_entry(w, user_id, cleaned, text_hash, flags)
        id        == w1.sqlite_sequence.entries
        w2        == create_undo_action(w1, user_id, "entry_create",
                                        [NoPayload EXCEPT !.ref = id])
    IN IF cleaned = <<>> THEN [w |-> w, res |-> Result(FALSE, "empty", NoId)]
       ELSE IF existing # NoId
            THEN [w |-> w, res |-> Result(FALSE, "duplicate", existing)]
            ELSE [w |-> w2, res |-> Result(TRUE, "", id)]

\* flags=None
ingest_entry(w, user_id, entry_text) == ingest_entry_flags(w, user_id, entry_text, NoFlags)

----------------------------------------------------------------------------
(* orchestrator.py: undo_last_action *)

undo_last_action(w, user_id) ==
    LET action_id == get_last_undo_action(w, user_id) IN
    IF action_id = NoId
    THEN [w |-> w, res |-> Result(FALSE, "nothing_to_undo", NoId)]
    ELSE
    LET action      == w.undo_actions[action_id]
        payload     == action.payload
        action_type == action.action_type
        reverted ==
            CASE action_type = "entry_create" ->
                    IF payload.ref # NoId THEN delete_entry(w, payload.ref) ELSE w
              [] action_type = "draft_create" ->
                    IF payload.ref # NoId THEN delete_draft(w, payload.ref) ELSE w
              [] action_type = "draft_status_update" ->
                    IF payload.ref # NoId /\ payload.previous_status # ""
                    THEN update_draft_status(w, payload.ref, payload.previous_status,
                                             payload.previous_scheduled_at)
                    ELSE w
              [] OTHER -> w
    IN IF action_type \notin {"entry_create", "draft_create", "draft_status_update"}
       THEN [w |-> w, res |-> Result(FALSE, "unsupported_undo_action", action_id)]
       ELSE [w   |-> mark_undo_action_done(reverted, action_id),
             res |-> Result(TRUE, action_type, action_id)]

----------------------------------------------------------------------------
(* config.py: parse_route; llm/router.py: LLMRouter *)

\* a route is the text 'provider:model'; parse_route splits it at the first
\* colon and strips both halves, and raises ValueError when there is no colon
HasColon(route) == \E i \in DOMAIN route : route[i] = ":"

FirstColon(route) ==
    CHOOSE i \in DOMAIN route : route[i] = ":" /\ \A j \in 1..(i - 1) : route[j] # ":"

parse_route(route) ==
    IF ~HasColon(route)
    THEN [raises |-> "ValueError", provider |-> <<>>, model |-> <<>>]
    ELSE [raises   |-> "",
          provider |-> strip(SubSeq(route, 1, FirstColon(route) - 1)),
          model    |-> strip(SubSeq(route, FirstColon(route) + 1, Len(route)))]

\* lines 38-43: the routes of the models file win over those of the settings
_routes_for_stage(models_reference, routing, stage) ==
    IF stage \in DOMAIN models_reference /\ models_reference[stage] # <<>>
    THEN models_reference[stage]
    ELSE IF stage \in DOMAIN routing THEN routing[stage]
    ELSE <<>>

\* f"{route}: {exc}"
route_error(route, message) == route \o <<":", " ">> \o <<message>>

NoRoutesConfigured(stage) == <<"No routes configured for stage ", stage>>

AllRoutesFailed(errors) ==
    <<"All provider routes failed: ">> \o join(<<" ", "|", " ">>, errors)

\* what a provider's generate returns: its own name, the model it was asked for
LLMResult(provider, model) ==
    [text |-> provider \o <<" ">> \o model, provider |-> provider, model |-> model]

NoResult == [text |-> <<>>, provider |-> <<>>, model |-> <<>>]

\* what leaves LLMRouter.generate: a result, or an exception with its message
Returned(w, result) == [w |-> w, raises |-> "", message |-> <<>>, result |-> result]

Thrown(w, exception, message) ==
    [w |-> w, raises |-> exception, message |-> message, result |-> NoResult]

provider_generate(w, route, provider, model, fate) ==
    [w EXCEPT !.provider_calls = Append(w.provider_calls,
                  [route |-> route, provider |-> provider, model |-> model,
                   outcome |-> fate])]

log_llm_call_dropped(w, stage, result) == w

log_llm_call(w, stage, result) ==
    [w EXCEPT !.llm_calls = Append(w.llm_calls,
                  [stage |-> stage, provider |-> result.provider, model |-> result.model])]

\* lines 64-106: the loop over the routes; fates[p] is "ok" when provider p
\* returns and the message of its exception otherwise
RECURSIVE try_routes(_, _, _, _, _, _)
try_routes(w, providers, stage, routes, fates, errors) ==
    IF routes = <<>> THEN Thrown(w, "ProviderError", AllRoutesFailed(errors))
    ELSE
    LET route  == Head(routes)
        parsed == parse_route(route)
        w1     == provider_generate(w, route, parsed.provider, parsed.model,
                                    fates[parsed.provider])
        result == LLMResult(parsed.provider, parsed.model)
    IN IF parsed.raises # ""
       THEN Thrown(w, parsed.raises, <<"Invalid route format: ">> \o route)
       ELSE IF parsed.provider \notin providers
       THEN try_routes(w, providers, stage, Tail(routes), fates,
                       Append(errors, route_error(route, "provider not available")))
       ELSE IF fates[parsed.provider] = "ok"
       THEN Returned(log_llm_call(w1, stage, result), result)
       ELSE try_routes(w1, providers, stage, Tail(routes), fates,
                       Append(errors, route_error(route, fates[parsed.provider])))

generate(w, providers, models_reference, routing, stage, fates) ==
    LET routes == _routes_for_stage(models_reference, routing, stage)
    IN IF routes = <<>> THEN Thrown(w, "ProviderError", NoRoutesConfigured(stage))
       ELSE try_routes(w, providers, stage, routes, fates, <<>>)

----------------------------------------------------------------------------
(* orchestrator.py: summarize_entry, generate_drafts *)

\* a router.generate call returns a text, raises ProviderError, or raises
\* something else (parse_route's ValueError on a route without ':')
RouterOk(text) == [ok |-> TRUE, text |-> text, raises |-> ""]

RouterError == [ok |-> FALSE, text |-> <<>>, raises |-> "ProviderError"]

RouterCrash == [ok |-> FALSE, text |-> <<>>, raises |-> "ValueError"]

Stage(name, platform, retry) == [stage |-> name, platform |-> platform, retry |-> retry]

\* the orchestrator calls router.generate and gets the answer
router_generate(w, stage, answer) ==
    [w EXCEPT !.router_calls = Append(w.router_calls,
                  [stage |-> stage, ok |-> answer.ok, text |-> answer.text,
                   raises |-> answer.raises])]

_llm_enabled_always(cfg) == TRUE

_llm_enabled(cfg) == cfg.llm_enabled

enabled_platforms(cfg) ==
    SelectSeq(PLATFORMS, LAMBDA platform : platform \in cfg.platforms_enabled)

SummaryChars == 300

\* what summarize_entry hands back: a summary with the fallback reason of its
\* metadata, or the exception that leaves it
Summary(w, text, reason) == [w |-> w, raised |-> "", summary |-> text, reason |-> reason]

Raised(w, exception) == [w |-> w, raised |-> exception, summary |-> <<>>, reason |-> ""]

summarize_entry_unguarded(w, cfg, has_router, entry_id, answer) ==
    LET text == w.entries[entry_id].text
        w1   == router_generate(w, Stage("summarize", "", FALSE), answer)
    IN IF entry_id \notin DOMAIN w.entries THEN Raised(w, "ValueError")
       ELSE IF ~_llm_enabled(cfg) \/ ~has_router
       THEN Summary(w, prefix(text, SummaryChars), "llm_disabled_or_router_missing")
       ELSE IF answer.ok
       THEN Summary(w1, IF answer.text # <<>> THEN answer.text
                        ELSE prefix(text, SummaryChars), "")
       ELSE Raised(w1, answer.raises)

\* the reason "provider_error" stands for the first 240 characters of the
\* provider error's message
summarize_entry(w, cfg, has_router, entry_id, answer) ==
    LET text == w.entries[entry_id].text
        w1   == router_generate(w, Stage("summarize", "", FALSE), answer)
    IN IF entry_id \notin DOMAIN w.entries THEN Raised(w, "ValueError")
       ELSE IF ~_llm_enabled(cfg) \/ ~has_router
       THEN Summary(w, prefix(text, SummaryChars), "llm_disabled_or_router_missing")
       ELSE IF answer.ok
       THEN Summary(w1, IF answer.text # <<>> THEN answer.text
                        ELSE prefix(text, SummaryChars), "")
       ELSE IF answer.raises = "ProviderError"
       THEN Summary(w1, prefix(text, SummaryChars), "provider_error")
       ELSE Raised(w1, answer.raises)

upper(platform) ==
    CASE platform = "x" -> <<"X">>
      [] platform = "threads" -> <<"T", "H", "R", "E", "A", "D", "S">>
      [] platform = "linkedin" -> <<"L", "I", "N", "K", "E", "D", "I", "N">>

_deterministic_draft(platform, summary, entry_text, limit) ==
    LET base == <<"[">> \o upper(platform) \o <<"]", " ">>
                    \o (IF summary # <<>> THEN summary ELSE entry_text)
    IN truncate_to_limit(base, limit)

\* the content generate_drafts stores for one platform
draft_content(cfg, has_router, platform, summary, entry_text, first, retry) ==
    LET limit   == get_limit(cfg, platform)
        use_llm == _llm_enabled(cfg) /\ has_router
        content == IF use_llm /\ first.ok THEN strip(first.text)
                   ELSE _deterministic_draft(platform, summary, entry_text, limit)
        retried == IF use_llm
                   THEN (IF retry.ok THEN strip(retry.text)
                         ELSE truncate_to_limit(content, limit))
                   ELSE content
    IN IF validate_draft(platform, content, cfg).ok THEN content
       ELSE IF validate_draft(platform, retried, cfg).ok THEN retried
       ELSE truncate_to_limit(retried, limit)

draft_for_platform_unguarded(w, cfg, has_router, platform, summary, entry_text, first, retry) ==
    LET limit   == get_limit(cfg, platform)
        use_llm == _llm_enabled(cfg) /\ has_router
        w1      == IF use_llm THEN router_generate(w, Stage("draft", platform, FALSE), first)
                   ELSE w
        content == IF use_llm THEN strip(first.text)
                   ELSE _deterministic_draft(platform, summary, entry_text, limit)
        rewrite == use_llm /\ ~validate_draft(platform, content, cfg).ok
        w2      == IF rewrite THEN router_generate(w1, Stage("draft", platform, TRUE), retry)
                   ELSE w1
    IN IF use_llm /\ ~first.ok
       THEN [w |-> w1, raised |-> first.raises, content |-> <<>>]
       ELSE IF rewrite /\ ~retry.ok /\ retry.raises # "ProviderError"
       THEN [w |-> w2, raised |-> retry.raises, content |-> <<>>]
       ELSE [w |-> w2, raised |-> "",
             content |-> draft_content(cfg, has_router, platform, summary, entry_text,
                                       first, retry)]

\* a rewrite is asked for whatever the first content was
draft_for_platform_always_rewrites(w, cfg, has_router, platform, summary, entry_text, first, retry) ==
    LET limit   == get_limit(cfg, platform)
        use_llm == _llm_enabled(cfg) /\ has_router
        w1      == IF use_llm THEN router_generate(w, Stage("draft", platform, FALSE), first)
                   ELSE w
        w2      == IF use_llm THEN router_generate(w1, Stage("draft", platform, TRUE), retry)
                   ELSE w1
    IN IF use_llm /\ ~first.ok /\ first.raises # "ProviderError"
       THEN [w |-> w1, raised |-> first.raises, content |-> <<>>]
       ELSE [w |-> w2, raised |-> "",
             content |-> draft_content(cfg, has_router, platform, summary, entry_text,
                                       first, retry)]

\* lines 168-227: the router calls made for one platform, and the content
draft_for_platform(w, cfg, has_router, platform, summary, entry_text, first, retry) ==
    LET limit   == get_limit(cfg, platform)
        use_llm == _llm_enabled(cfg) /\ has_router
        w1      == IF use_llm THEN router_generate(w, Stage("draft", platform, FALSE), first)
                   ELSE w
        content == IF use_llm /\ first.ok THEN strip(first.text)
                   ELSE _deterministic_draft(platform, summary, entry_text, limit)
        rewrite == use_llm /\ ~validate_draft(platform, content, cfg).ok
        w2      == IF rewrite THEN router_generate(w1, Stage("draft", platform, TRUE), retry)
                   ELSE w1
    IN IF use_llm /\ ~first.ok /\ first.raises # "ProviderError"
       THEN [w |-> w1, raised |-> first.raises, content |-> <<>>]
       ELSE IF rewrite /\ ~retry.ok /\ retry.raises # "ProviderError"
       THEN [w |-> w2, raised |-> retry.raises, content |-> <<>>]
       ELSE [w |-> w2, raised |-> "",
             content |-> draft_content(cfg, has_router, platform, summary, entry_text,
                                       first, retry)]

RECURSIVE generate_each(_, _, _, _, _, _, _, _, _)
generate_each(w, cfg, has_router, entry_id, platform_list, is_strict, summary, oracle, made) ==
    IF platform_list = <<>> THEN [w |-> w, raised |-> "", made |-> made]
    ELSE
    LET platform == Head(platform_list)
        rest     == Tail(platform_list)
    IN IF platform \notin PlatformSet
       THEN generate_each(w, cfg, has_router, entry_id, rest, is_strict, summary, oracle, made)
       ELSE
       LET entry == w.entries[entry_id]
           g     == draft_for_platform(w, cfg, has_router, platform, summary, entry.text,
                                       oracle.draft[platform], oracle.retry[platform])
           w1    == create_draft(g.w, entry_id, platform, g.content, "pending", summary,
                                 is_strict)
           id    == w1.sqlite_sequence.drafts
           w2    == create_undo_action(w1, entry.user_id, "draft_create",
                                       [NoPayload EXCEPT !.ref = id])
       IN IF g.raised # "" THEN [w |-> g.w, raised |-> g.raised, made |-> made]
          ELSE generate_each(w2, cfg, has_router, entry_id, rest, is_strict, summary, oracle,
                  Append(made, Result(validate_draft(platform, g.content, cfg).ok, "", id)))

\* an exception that leaves an orchestrator call
Raise(w, exception, id) == [w |-> w, res |-> Result(FALSE, exception, id)]

generate_drafts(w, cfg, has_router, entry_id, platform_list, is_strict, oracle) ==
    IF entry_id \notin DOMAIN w.entries
    THEN [w |-> w, res |-> Result(FALSE, "entry_not_found", entry_id)]
    ELSE
    LET platforms == IF platform_list # <<>> THEN platform_list ELSE enabled_platforms(cfg)
        sm        == summarize_entry(w, cfg, has_router, entry_id, oracle.summarize)
        r         == generate_each(sm.w, cfg, has_router, entry_id, platforms, is_strict,
                                   sm.summary, oracle, <<>>)
    IN IF sm.raised # "" THEN Raise(sm.w, sm.raised, entry_id)
       ELSE IF r.raised # "" THEN Raise(r.w, r.raised, entry_id)
       ELSE [w |-> r.w, res |-> [Result(TRUE, "", entry_id) EXCEPT !.results = r.made]]

----------------------------------------------------------------------------
(* orchestrator.py: set_draft_decision, schedule_draft *)

StatusPayload_without_time(w, draft_id) ==
    [ref                   |-> draft_id,
     previous_status       |-> w.drafts[draft_id].status,
     previous_scheduled_at |-> NoTime]

StatusPayload(w, draft_id) ==
    [ref                   |-> draft_id,
     previous_status       |-> w.drafts[draft_id].status,
     previous_scheduled_at |-> w.drafts[draft_id].scheduled_at]

set_draft_decision(w, user_id, draft_id, new_status) ==
    IF draft_id \notin DOMAIN w.drafts
    THEN [w |-> w, res |-> Result(FALSE, "draft_not_found", draft_id)]
    ELSE
    LET w1 == update_draft_status(w, draft_id, new_status, w.drafts[draft_id].scheduled_at)
        w2 == create_undo_action(w1, user_id, "draft_status_update", StatusPayload(w, draft_id))
    IN [w |-> w2, res |-> Result(TRUE, "", draft_id)]

schedule_draft(w, user_id, draft_id, scheduled_at) ==
    IF draft_id \notin DOMAIN w.drafts
    THEN [w |-> w, res |-> Result(FALSE, "draft_not_found", draft_id)]
    ELSE
    LET w1 == update_draft_status(w, draft_id, "scheduled", scheduled_at)
        w2 == create_undo_action(w1, user_id, "draft_status_update", StatusPayload(w, draft_id))
    IN [w |-> w2, res |-> Result(TRUE, "", draft_id)]

----------------------------------------------------------------------------
(* orchestrator.py: regenerate_draft, edit_draft *)

supersede_unrecorded(w, user_id, draft_id, content, summary, strict) ==
    LET old == w.drafts[draft_id]
        w1  == update_draft_status(w, draft_id, "rejected", old.scheduled_at)
        w2  == create_draft(w1, old.entry_id, old.platform, content, "pending", summary, strict)
    IN [w |-> w2, res |-> Result(TRUE, "", w2.sqlite_sequence.drafts)]

\* the old row is rejected and a new pending version is stored and recorded
supersede(w, user_id, draft_id, content, summary, strict) ==
    LET old == w.drafts[draft_id]
        w1  == update_draft_status(w, draft_id, "rejected", old.scheduled_at)
        w2  == create_draft(w1, old.entry_id, old.platform, content, "pending", summary, strict)
        id  == w2.sqlite_sequence.drafts
        w3  == create_undo_action(w2, user_id, "draft_create", [NoPayload EXCEPT !.ref = id])
    IN [w |-> w3, res |-> Result(TRUE, "", id)]

regenerate_draft(w, cfg, has_router, user_id, draft_id, answer) ==
    IF draft_id \notin DOMAIN w.drafts
    THEN [w |-> w, res |-> Result(FALSE, "draft_not_found", draft_id)]
    ELSE IF w.drafts[draft_id].entry_id \notin DOMAIN w.entries
    THEN [w |-> w, res |-> Result(FALSE, "entry_not_found", draft_id)]
    ELSE
    LET draft    == w.drafts[draft_id]
        entry    == w.entries[draft.entry_id]
        platform == draft.platform
        limit    == get_limit(cfg, platform)
        use_llm  == _llm_enabled(cfg) /\ has_router
        w1       == IF use_llm
                    THEN router_generate(w, Stage("draft", platform, FALSE), answer)
                    ELSE w
        content  == IF use_llm /\ answer.ok THEN strip(answer.text)
                    ELSE _deterministic_draft(platform, draft.summary, entry.text, limit)
        stored   == IF validate_draft(platform, content, cfg).ok THEN content
                    ELSE truncate_to_limit(content, limit)
    IN IF use_llm /\ ~answer.ok /\ answer.raises # "ProviderError"
       THEN Raise(w1, answer.raises, draft_id)
       ELSE supersede(w1, user_id, draft_id, stored, draft.summary, draft.strict)

edit_draft_unchecked(w, cfg, user_id, draft_id, replacement_text) ==
    IF draft_id \notin DOMAIN w.drafts
    THEN [w |-> w, res |-> Result(FALSE, "draft_not_found", draft_id)]
    ELSE supersede(w, user_id, draft_id, strip(replacement_text), <<>>, FALSE)

edit_draft(w, cfg, user_id, draft_id, replacement_text) ==
    IF draft_id \notin DOMAIN w.drafts
    THEN [w |-> w, res |-> Result(FALSE, "draft_not_found", draft_id)]
    ELSE
    LET limit   == get_limit(cfg, w.drafts[draft_id].platform)
        content == truncate_to_limit(strip(replacement_text), limit)
    IN supersede(w, user_id, draft_id, content, <<>>, FALSE)

----------------------------------------------------------------------------
(* orchestrator.py: publish_draft, publish_approved_queue, run_scheduler_once *)

\* no /dryrun override is stored (the settings row is absent): the default
effective_dry_run(w, cfg) == cfg.dry_run

\* platform_clients: what publish(content, dry_run) returns or raises, with
\* the environment variables it read and whether it used the network; live, it
\* returns or raises as credentials and the network decide (fate)
XClient_publish_live(content, dry_run, fate) ==
    [success |-> fate = "ok", dry_run |-> FALSE, platform |-> "x",
     raises |-> IF fate = "ok" THEN "" ELSE fate,
     getenv |-> {"X_API_KEY", "X_API_KEY_SECRET", "X_ACCESS_TOKEN", "X_ACCESS_TOKEN_SECRET"},
     network |-> TRUE]

XClient_publish(content, dry_run, fate) ==
    IF dry_run
    THEN [success |-> TRUE, dry_run |-> TRUE, platform |-> "x", raises |-> "",
          getenv |-> {}, network |-> FALSE]
    ELSE [success |-> fate = "ok", dry_run |-> FALSE, platform |-> "x",
          raises |-> IF fate = "ok" THEN "" ELSE fate,
          getenv |-> {"X_API_KEY", "X_API_KEY_SECRET", "X_ACCESS_TOKEN", "X_ACCESS_TOKEN_SECRET"},
          network |-> TRUE]

ThreadsClient_publish(content, dry_run, fate) ==
    IF dry_run
    THEN [success |-> TRUE, dry_run |-> TRUE, platform |-> "threads", raises |-> "",
          getenv |-> {}, network |-> FALSE]
    ELSE [success |-> fate = "ok", dry_run |-> FALSE, platform |-> "threads",
          raises |-> IF fate = "ok" THEN "" ELSE fate,
          getenv |-> {"THREADS_USER_ID", "THREADS_ACCESS_TOKEN"},
          network |-> TRUE]

LinkedInClient_publish(content, dry_run, fate) ==
    IF dry_run
    THEN [success |-> TRUE, dry_run |-> TRUE, platform |-> "linkedin", raises |-> "",
          getenv |-> {}, network |-> FALSE]
    ELSE [success |-> fate = "ok", dry_run |-> FALSE, platform |-> "linkedin",
          raises |-> IF fate = "ok" THEN "" ELSE fate,
          getenv |-> {"LINKEDIN_ACCESS_TOKEN", "LINKEDIN_PERSON_URN"},
          network |-> TRUE]

\* publishing.py: the registry of the three clients
get_clients(platform, content, dry_run, fate) ==
    CASE platform = "x"        -> XClient_publish(content, dry_run, fate)
      [] platform = "threads"  -> ThreadsClient_publish(content, dry_run, fate)
      [] platform = "linkedin" -> LinkedInClient_publish(content, dry_run, fate)

\* line 406 of orchestrator.py: "ok" when the client returned, else its error
client_publish(platform, content, dry_run, fate) ==
    LET response == get_clients(platform, content, dry_run, fate)
    IN IF response.raises = "" THEN "ok" ELSE response.raises

gate_ignores_status(cfg, force, status) == FALSE

approval_gate_closed(cfg, force, status) ==
    cfg.approval_required /\ ~force /\ status \notin {"approved", "scheduled"}

invoke_client(w, draft_id, outcome) ==
    [w EXCEPT !.client_calls = Append(w.client_calls,
                                      [draft_id |-> draft_id, outcome |-> outcome])]

\* lines 405-422: the client returned
publish_succeeded_unlogged(w, draft) ==
    update_draft_status(w, draft.id, "published", NoTime)

publish_succeeded_keeps_schedule(w, draft) ==
    update_draft_status(create_publish_log(w, draft.id, draft.platform, TRUE, ""),
                        draft.id, "published", w.drafts[draft.id].scheduled_at)

publish_succeeded(w, draft) ==
    update_draft_status(create_publish_log(w, draft.id, draft.platform, TRUE, ""),
                        draft.id, "published", NoTime)

\* lines 423-439: the client raised
publish_failed_unlogged(w, draft, error) == w

publish_failed_resets_status(w, draft, error) ==
    update_draft_status(create_publish_log(w, draft.id, draft.platform, FALSE, error),
                        draft.id, "approved", NoTime)

publish_failed(w, draft, error) ==
    create_publish_log(w, draft.id, draft.platform, FALSE, error)

publish_draft(w, cfg, draft_id, clients, force, fate) ==
    IF draft_id \notin DOMAIN w.drafts
    THEN [w |-> w, res |-> Result(FALSE, "draft_not_found", draft_id)]
    ELSE
    LET draft   == [id       |-> draft_id,
                    platform |-> w.drafts[draft_id].platform,
                    content  |-> w.drafts[draft_id].content,
                    status   |-> w.drafts[draft_id].status]
        dry_run == effective_dry_run(w, cfg)
        outcome == client_publish(draft.platform, draft.content, dry_run, fate)
        w1      == invoke_client(w, draft_id, outcome)
    IN IF approval_gate_closed(cfg, force, draft.status)
       THEN [w |-> w, res |-> Result(FALSE, "approval_required", draft_id)]
       ELSE IF ~validate_draft(draft.platform, draft.content, cfg).ok
       THEN [w |-> w, res |-> Result(FALSE, "invalid_draft", draft_id)]
       ELSE IF draft.platform \notin clients
       THEN [w |-> w, res |-> Result(FALSE, "missing_platform_client", draft_id)]
       ELSE IF outcome = "ok"
       THEN [w |-> publish_succeeded(w1, draft), res |-> Result(TRUE, "", draft_id)]
       ELSE [w   |-> publish_failed(w1, draft, outcome),
             res |-> Result(FALSE, "publish_failed", draft_id)]

\* publish_draft on each draft of a list in turn, collecting the results
RECURSIVE publish_each(_, _, _, _, _, _, _)
publish_each(w, cfg, ids, clients, force, fates, results) ==
    IF ids = <<>> THEN [w |-> w, results |-> results]
    ELSE LET r == publish_draft(w, cfg, Head(ids), clients, force, fates[Head(ids)])
         IN publish_each(r.w, cfg, Tail(ids), clients, force, fates, Append(results, r.res))

publish_approved_queue(w, cfg, user_id, clients, fates) ==
    LET r == publish_each(w, cfg, list_approved_drafts(w, user_id), clients, FALSE, fates, <<>>)
    IN [w |-> r.w, res |-> [Result(TRUE, "", NoId) EXCEPT !.results = r.results]]

run_scheduler_once(w, cfg, now, clients, fates) ==
    LET r == publish_each(w, cfg, list_due_scheduled_drafts(w, now), clients, TRUE, fates, <<>>)
    IN [w |-> r.w, res |-> [Result(TRUE, "", NoId) EXCEPT !.results = r.results]]

----------------------------------------------------------------------------
(* telegram_bot.py: what the handlers call *)

\* strptime of the stripped text against the two formats: a time is written
\* here as its one digit; any other text raises ValueError
parse_user_datetime(text) ==
    LET t == strip(text)
    IN IF t = <<"1">> THEN [raises |-> "", dt |-> 1]
       ELSE IF t = <<"2">> THEN [raises |-> "", dt |-> 2]
       ELSE [raises |-> "ValueError", dt |-> NoTime]

\* SELECT ... WHERE user_id = ? ORDER BY id DESC LIMIT ?
list_user_entries(w, user_id, limit) ==
    LET rows == order_by_id_desc({e \in DOMAIN w.entries : w.entries[e].user_id = user_id})
    IN SubSeq(rows, 1, IF Len(rows) < limit THEN Len(rows) ELSE limit)

\* lines 485-508: drafting for #draft and #publish.  An exception of
\* generate_drafts leaves the rows written so far
draft_after_ingest(ingest, cfg, has_router, flags, oracle) ==
    IF ~(flags.draft \/ flags.publish) THEN ingest
    ELSE LET draft_result ==
                 generate_drafts(ingest.w, cfg, has_router, ingest.res.id,
                                 IF flags.publish_platforms # <<>>
                                 THEN flags.publish_platforms ELSE enabled_platforms(cfg),
                                 flags.strict, oracle)
         IN [w |-> draft_result.w,
             res |-> [ingest.res EXCEPT !.results = draft_result.res.results]]

\* a private entry is drafted all the same
draft_even_if_private(ingest, cfg, has_router, flags, oracle) ==
    IF ~ingest.res.ok THEN ingest
    ELSE draft_after_ingest(ingest, cfg, has_router, flags, oracle)

\* lines 465-479: a refused entry and a private entry end the handler
stop_if_private(ingest, cfg, has_router, flags, oracle) ==
    IF ~ingest.res.ok THEN ingest
    ELSE IF flags.private THEN ingest
    ELSE draft_after_ingest(ingest, cfg, has_router, flags, oracle)

_process_entry_text_drafts_private(w, cfg, has_router, user_id, text, oracle) ==
    draft_even_if_private(
        ingest_entry_flags(w, user_id, parse_directives(text).cleaned_text,
                           parse_directives(text).flags),
        cfg, has_router, parse_directives(text).flags, oracle)

\* lines 459-464: the entry is stored with the flags of its directives
_process_entry_text(w, cfg, has_router, user_id, text, oracle) ==
    stop_if_private(
        ingest_entry_flags(w, user_id, parse_directives(text).cleaned_text,
                           parse_directives(text).flags),
        cfg, has_router, parse_directives(text).flags, oracle)

----------------------------------------------------------------------------
(* Inputs *)

\* raw texts a user may send: blank ones, and spellings of the same words
RawTexts ==
    { <<>>,
      <<" ">>,
      <<"h", "i">>,
      <<" ", "H", "i", " ">>,
      <<"a", " ", "b">>,
      <<"A", " ", " ", "b", "\n">> }

\* times a draft may be scheduled for, and times a sweep may run at
Times == {1, 2}

\* the client registry of publishing.py, and one lacking the client for x
AllClients == PlatformSet

ClientSets == {AllClients, AllClients \ {"x"}}

\* what a live client call may do: return, or raise with some error text
Fates == {"ok", "HTTP 500"}

SmallLimits == [x |-> 8, threads |-> 12, linkedin |-> 12]

TinyLimits == [x |-> 3, threads |-> 12, linkedin |-> 12]

Config(approval_required, dry_run, llm_enabled, platform_limits) ==
    [approval_required |-> approval_required,
     dry_run           |-> dry_run,
     llm_enabled       |-> llm_enabled,
     platforms_enabled |-> PlatformSet,
     platform_limits   |-> platform_limits]

\* the settings a behaviour may run under
Configs ==
    { Config(TRUE, FALSE, FALSE, SmallLimits),
      Config(FALSE, FALSE, FALSE, SmallLimits) }

\* texts a router returns or a user sends as a replacement: one that fits
\* every positive limit once stripped, one that fits none
ShortText == <<" ", "o", "k", " ">>

LongText == <<"a", "b", " ", " ", "c", "d", "e", "f", "g", "h">>

Answers == {RouterError, RouterOk(ShortText), RouterOk(LongText)}

\* limits of x from none to one that the deterministic draft of "hi" fits
LimitsOfX == {0, 3, 5, 7}

DraftConfigs ==
    { [Config(FALSE, FALSE, enabled, [SmallLimits EXCEPT !.x = limit])
          EXCEPT !.platforms_enabled = {"x", "linkedin"}] :
        enabled \in BOOLEAN, limit \in LimitsOfX }

\* what the router answers in one generate_drafts call
Oracle(sm, first, retry) ==
    [summarize |-> sm,
     draft     |-> [p \in PlatformSet |-> IF p = "x" THEN first ELSE RouterError],
     retry     |-> [p \in PlatformSet |-> IF p = "x" THEN retry ELSE RouterError]]

\* a rewrite answer matters only after a first answer that can be too long
Oracles ==
    UNION { { Oracle(sm, first, retry) :
                retry \in IF first = RouterOk(LongText) THEN Answers ELSE {RouterError} } :
            sm \in {RouterError, RouterOk(ShortText)}, first \in Answers }

NoOracle ==
    [summarize |-> RouterError,
     draft     |-> [p \in PlatformSet |-> RouterError],
     retry     |-> [p \in PlatformSet |-> RouterError]]

\* the router's inputs: two registered providers, and routes that name them,
\* a provider that is not registered, and a text without a colon
Providers == {<<"a">>, <<"b">>}

RouteA == <<"a", ":", "1">>

RouteB == <<"b", " ", ":", " ", "2">>

RouteGone == <<"g", ":", "1">>

RouteBad == <<"a", "1">>

Routes == {RouteA, RouteB, RouteGone, RouteBad}

\* every list of distinct routes
RouteLists ==
    { routes \in UNION { [1..n -> Routes] : n \in 0..Cardinality(Routes) } :
        \A i, j \in DOMAIN routes : i # j => routes[i] # routes[j] }

ProviderFates ==
    { [p \in Providers |-> IF p = <<"a">> THEN a ELSE b] :
        a \in {"ok", "timeout"}, b \in {"ok", "auth"} }

NoModelsFile == <<>>

\* the database stays within the bounds of a specification
Within(w, max_entries, max_undo, max_calls) ==
    /\ w.sqlite_sequence.entries <= max_entries
    /\ Len(w.undo_actions) <= max_undo
    /\ Len(w.client_calls) <= max_calls

----------------------------------------------------------------------------
(* Processes: main.py runs the bot and each run-scheduler job as processes *)
(* of their own on one database file                                       *)

Schedulers == {"scheduler_a", "scheduler_b"}

Procs == {"bot"} \cup Schedulers

\* the row publish_draft read at line 382
NoDraft == [id |-> NoId, platform |-> "", content |-> <<>>, status |-> ""]

Idle ==
    [pc      |-> "idle",
     op      |-> "none",
     queue   |-> <<>>,
     force   |-> FALSE,
     draft   |-> NoDraft,
     outcome |-> "",
     user    |-> "",
     previous |-> NoPayload]

----------------------------------------------------------------------------
(* Actions: one orchestrator call each *)

Call(op, user_id, id, r) ==
    [NoLast EXCEPT !.op = op, !.user = user_id, !.id = id,
                   !.ok = r.res.ok, !.reason = r.res.reason,
                   !.results = r.res.results]

IngestEntry(user_id, entry_text) ==
    LET r == ingest_entry(World, user_id, entry_text) IN
    /\ Commit(r.w)
    /\ last' = [Call("ingest_entry", user_id, r.res.id, r) EXCEPT !.text = entry_text]
    /\ UNCHANGED <<config, publishers>>

UndoLastAction(user_id) ==
    LET r == undo_last_action(World, user_id) IN
    /\ Commit(r.w)
    /\ last' = Call("undo_last_action", user_id, r.res.id, r)
    /\ UNCHANGED <<config, publishers>>

\* the database as an orchestrator call finds it
Before == [World EXCEPT !.router_calls = <<>>]

GenerateDrafts(entry_id, platform_list, has_router, is_strict, oracle) ==
    LET r == generate_drafts(Before, config, has_router, entry_id, platform_list,
                             is_strict, oracle) IN
    /\ Commit(r.w)
    /\ last' = [Call("generate_drafts", "", entry_id, r) EXCEPT !.text = platform_list]
    /\ UNCHANGED <<config, publishers>>

RegenerateDraft(user_id, draft_id, has_router, answer) ==
    LET r == regenerate_draft(Before, config, has_router, user_id, draft_id, answer) IN
    /\ Commit(r.w)
    /\ last' = [Call("regenerate_draft", user_id, draft_id, r) EXCEPT
                   !.results = IF r.res.ok THEN <<r.res>> ELSE <<>>]
    /\ UNCHANGED <<config, publishers>>

EditDraft(user_id, draft_id, replacement_text) ==
    LET r == edit_draft(Before, config, user_id, draft_id, replacement_text) IN
    /\ Commit(r.w)
    /\ last' = [Call("edit_draft", user_id, draft_id, r) EXCEPT
                   !.text = replacement_text,
                   !.results = IF r.res.ok THEN <<r.res>> ELSE <<>>]
    /\ UNCHANGED <<config, publishers>>

SetDraftDecision(user_id, draft_id, new_status) ==
    LET r == set_draft_decision(World, user_id, draft_id, new_status) IN
    /\ Commit(r.w)
    /\ last' = [Call("set_draft_decision", user_id, draft_id, r) EXCEPT !.text = new_status]
    /\ UNCHANGED <<config, publishers>>

ScheduleDraft(user_id, draft_id, scheduled_at) ==
    LET r == schedule_draft(World, user_id, draft_id, scheduled_at) IN
    /\ Commit(r.w)
    /\ last' = [Call("schedule_draft", user_id, draft_id, r) EXCEPT !.now = scheduled_at]
    /\ UNCHANGED <<config, publishers>>

PublishDraft(draft_id, clients, force, fate) ==
    LET r == publish_draft(World, config, draft_id, clients, force, fate) IN
    /\ Commit(r.w)
    /\ last' = [Call("publish_draft", "", draft_id, r) EXCEPT
                   !.force = force, !.clients = clients]
    /\ UNCHANGED <<config, publishers>>

\* a platform client called on its own, as the test of the clients does
ClientPublish_alone(platform, content, dry_run, fate) ==
    LET response == get_clients(platform, content, dry_run, fate) IN
    /\ Commit(World)
    /\ last' = [NoLast EXCEPT !.op = "client.publish", !.user = platform,
                              !.text = content, !.force = dry_run,
                              !.ok = response.success, !.reason = response.raises,
                              !.results = <<response>>]
    /\ UNCHANGED <<config, publishers>>

\* the two validators applied as their test applies them: the text is cut to
\* the limit, and the text and its cut are validated for x under that limit
TruncationAndValidation(content, limit) ==
    LET cfg       == [config EXCEPT !.platform_limits.x = limit]
        truncated == truncate_to_limit(content, limit)
    IN /\ Commit(World)
       /\ last' = [NoLast EXCEPT
                      !.op = "truncate_to_limit", !.text = content,
                      !.results = << [limit     |-> limit,
                                      truncated |-> truncated,
                                      v1        |-> validate_draft("x", content, cfg),
                                      v2        |-> validate_draft("x", truncated, cfg)] >>]
       /\ UNCHANGED <<config, publishers>>

\* models.py called directly
AppendCaptureText(user_id, text) ==
    LET r == append_capture_text(World, user_id, text) IN
    /\ Commit(r.w)
    /\ last' = [NoLast EXCEPT !.op = "append_capture_text", !.user = user_id,
                              !.text = text, !.ok = r.session # {}]
    /\ UNCHANGED <<config, publishers>>

\* the bot's /capture
capture(user_id) ==
    /\ Commit(start_capture_session(World, user_id))
    /\ last' = [NoLast EXCEPT !.op = "capture", !.user = user_id, !.ok = TRUE]
    /\ UNCHANGED <<config, publishers>>

\* the bot's /done: last.text is the buffer that end_capture_session returned
done(user_id) ==
    LET ended  == end_capture_session(World, user_id)
        buffer == IF ended.session = {} THEN <<>>
                  ELSE (CHOOSE s \in ended.session : TRUE).buffer_text
        Stored(r) ==
            /\ Commit(r.w)
            /\ last' = [Call("done", user_id, r.res.id, r) EXCEPT
                           !.text = buffer, !.ok = TRUE, !.results = <<r.res>>]
            /\ UNCHANGED <<config, publishers>>
    IN IF ended.session = {} \/ strip(buffer) = <<>>
       THEN /\ Commit(ended.w)
            /\ last' = [NoLast EXCEPT !.op = "done", !.user = user_id, !.text = buffer,
                                      !.ok = ended.session # {}, !.reason = "no_session_or_empty"]
            /\ UNCHANGED <<config, publishers>>
       ELSE Stored(_process_entry_text(ended.w, config, FALSE, user_id, buffer, NoOracle))

\* a text message that is not a command; last.reason names the branch taken
\* and last.results holds what the call of that branch returned
message_handler(user_id, message_text) ==
    LET text    == strip(message_text)
        state   == get_user_state(World, user_id)
        row     == CHOOSE s \in state : TRUE
        edited  == edit_draft(World, config, user_id, row.draft_id, text)
        parsed  == parse_user_datetime(text)
        planned == schedule_draft(World, user_id, row.draft_id, parsed.dt)
        session == get_capture_session(World, user_id)
        Routed(branch, w, id, results) ==
            /\ Commit(w)
            /\ last' = [NoLast EXCEPT !.op = "message_handler", !.user = user_id,
                                      !.text = message_text, !.id = id,
                                      !.reason = branch, !.results = results,
                                      !.ok = \A i \in DOMAIN results : results[i].ok]
            /\ UNCHANGED <<config, publishers>>
        Entry(stored) == Routed("entry", stored.w, stored.res.id, <<stored.res>>)
    IN IF message_text = <<>>
       THEN Routed("ignored", World, NoId, <<>>)
       ELSE IF state # {} /\ row.state = "awaiting_edit"
       THEN Routed("awaiting_edit", clear_user_state(edited.w, user_id), row.draft_id,
                   <<edited.res>>)
       ELSE IF state # {} /\ row.state = "awaiting_schedule"
       THEN IF parsed.raises # ""
            THEN Routed("awaiting_schedule", World, row.draft_id,
                        <<Result(FALSE, parsed.raises, row.draft_id)>>)
            ELSE Routed("awaiting_schedule", clear_user_state(planned.w, user_id),
                        row.draft_id, <<planned.res>>)
       ELSE IF session # {}
       THEN Routed("captured", append_capture_text(World, user_id, text).w, NoId, <<>>)
       ELSE Entry(_process_entry_text(World, config, FALSE, user_id, text, NoOracle))

\* the bot's /draft: the newest entry of the user that is not private
ListLimit == 20

draft_command(user_id, args, has_router, oracle) ==
    LET candidates == list_user_entries(World, user_id, ListLimit)
        draftable  == SelectSeq(candidates, LAMBDA e : ~entries[e].flags.private)
        entry_id   == Head(draftable)
        platforms  == parse_platform_args(args, enabled_platforms(config))
        r          == generate_drafts(Before, config, has_router, entry_id, platforms,
                                      entries[entry_id].flags.strict, oracle)
    IN IF draftable = <<>>
       THEN /\ Commit(World)
            /\ last' = [NoLast EXCEPT !.op = "draft", !.user = user_id,
                                      !.reason = "no_draftable_entries"]
            /\ UNCHANGED <<config, publishers>>
       ELSE /\ Commit(r.w)
            /\ last' = [Call("draft", user_id, entry_id, r) EXCEPT !.text = platforms]
            /\ UNCHANGED <<config, publishers>>

\* a tap on a button of a draft card; last.text holds the action of the button
callback_handler(user_id, action, draft_id, has_router, answer, fate) ==
    LET decided(status) == set_draft_decision(World, user_id, draft_id, status)
        approved == IF draft_id \in DOMAIN drafts /\ drafts[draft_id].status # "approved"
                    THEN decided("approved").w ELSE World
        Handled(r) ==
            /\ Commit(r.w)
            /\ last' = [Call("callback_handler", user_id, draft_id, r) EXCEPT !.text = <<action>>]
            /\ UNCHANGED <<config, publishers>>
        Replied(w, ok) == Handled([w |-> w, res |-> Result(ok, "", draft_id)])
    IN CASE action = "approve"    -> Handled(decided("approved"))
         [] action = "reject"     -> Handled(decided("rejected"))
         [] action = "regenerate" ->
                Handled(regenerate_draft(Before, config, has_router, user_id, draft_id, answer))
         [] action = "edit"       ->
                Replied(set_user_state(World, user_id, "awaiting_edit", draft_id), TRUE)
         [] action = "publish"    ->
                Handled(publish_draft(approved, config, draft_id, AllClients, FALSE, fate))
         [] action = "pubyes"     ->
                Handled(publish_draft(World, config, draft_id, AllClients, FALSE, fate))
         [] action = "publater"   -> Replied(World, TRUE)
         [] action = "schedule"   ->
                Replied(set_user_state(World, user_id, "awaiting_schedule", draft_id), TRUE)
         [] OTHER                 -> Replied(World, FALSE)

PublishApprovedQueue(user_id, clients, fates) ==
    LET r == publish_approved_queue(World, config, user_id, clients, fates) IN
    /\ Commit(r.w)
    /\ last' = [Call("publish_approved_queue", user_id, NoId, r) EXCEPT !.clients = clients]
    /\ UNCHANGED <<config, publishers>>

\* models.create_undo_action called by another writer of the log with a type
\* undo_last_action has no handler for (the orchestrator writes none such)
CreateUndoAction(user_id, action_type) ==
    /\ Commit(create_undo_action(World, user_id, action_type, NoPayload))
    /\ last' = [NoLast EXCEPT !.op = "create_undo_action", !.user = user_id,
                              !.ok = TRUE, !.reason = action_type]
    /\ UNCHANGED <<config, publishers>>

\* one LLMRouter.generate call of a router built over this database
RouterGenerate(providers, models_reference, routing, stage, fates) ==
    LET r == generate([World EXCEPT !.provider_calls = <<>>], providers, models_reference,
                      routing, stage, fates) IN
    /\ Commit(r.w)
    /\ last' = [NoLast EXCEPT
                   !.op = "router_generate", !.user = stage,
                   !.text = _routes_for_stage(models_reference, routing, stage),
                   !.ok = (r.raises = ""), !.reason = r.raises, !.results = r.message,
                   !.clients = IF r.raises = "" THEN {r.result} ELSE {}]
    /\ UNCHANGED <<config, publishers>>

\* what the orchestrator gets from a LLMRouter.generate call
AnswerOf(g) ==
    [ok |-> (g.raises = ""), text |-> g.result.text, raises |-> g.raises]

\* one summarize_entry call with a router over routes and providers; the
\* router's rows and provider calls are made when summarize_entry calls it
SummarizeEntry(entry_id, has_router, routes, fates) ==
    LET before == [World EXCEPT !.router_calls = <<>>, !.provider_calls = <<>>]
        g      == generate(before, Providers, NoModelsFile, [summarize |-> routes],
                           "summarize", fates)
        s      == summarize_entry(before, config, has_router, entry_id, AnswerOf(g))
        w      == IF s.w.router_calls # <<>>
                  THEN [s.w EXCEPT !.llm_calls = g.w.llm_calls,
                                   !.provider_calls = g.w.provider_calls]
                  ELSE s.w
    IN /\ Commit(w)
       /\ last' = [NoLast EXCEPT
                      !.op = "summarize_entry", !.id = entry_id, !.force = has_router,
                      !.ok = (s.raised = ""), !.text = s.summary,
                      !.reason = IF s.raised # "" THEN s.raised ELSE s.reason]
       /\ UNCHANGED <<config, publishers>>

\* main.py line 39 and the tests: apply_migrations on the database file
ApplyMigrations ==
    /\ Commit([World EXCEPT !.schema = apply_migrations(schema)])
    /\ last' = [NoLast EXCEPT !.op = "apply_migrations", !.ok = TRUE]
    /\ UNCHANGED <<config, publishers>>

RunSchedulerOnce(now, clients, fates) ==
    LET r == run_scheduler_once(World, config, now, clients, fates) IN
    /\ Commit(r.w)
    /\ last' = [Call("run_scheduler_once", "", NoId, r) EXCEPT
                   !.now = now, !.clients = clients, !.force = TRUE]
    /\ UNCHANGED <<config, publishers>>

----------------------------------------------------------------------------
(* Specifications *)

\* a database file without rows and some settings
InitOn(configs, files) ==
    /\ entries = EmptyWorld.entries
    /\ drafts = EmptyWorld.drafts
    /\ publish_logs = EmptyWorld.publish_logs
    /\ undo_actions = EmptyWorld.undo_actions
    /\ sqlite_sequence = EmptyWorld.sqlite_sequence
    /\ client_calls = EmptyWorld.client_calls
    /\ llm_calls = EmptyWorld.llm_calls
    /\ router_calls = EmptyWorld.router_calls
    /\ provider_calls = EmptyWorld.provider_calls
    /\ sessions = EmptyWorld.sessions
    /\ user_states = EmptyWorld.user_states
    /\ created_drafts = EmptyWorld.created_drafts
    /\ schema \in files
    /\ legacy = EmptyWorld.legacy
    /\ config \in configs
    /\ publishers = [p \in Procs |-> Idle]
    /\ last = NoLast

\* an empty database (apply_migrations on a new file) and some settings
InitWith(configs) == InitOn(configs, {EmptyWorld.schema})

Init == InitWith(Configs)

InitDefault == InitWith({Config(TRUE, FALSE, FALSE, SmallLimits)})

\* ingestion and undo alone, two users
InIngest == Within(World, MaxEntries, MaxEntries, 0)

NextIngest ==
    \/ \E u \in Users, t \in RawTexts : IngestEntry(u, t) /\ InIngest'
    \/ \E u \in Users : UndoLastAction(u) /\ InIngest'

SpecIngest == InitDefault /\ [][NextIngest]_vars

\* one user, one entry, a draft for x: approval, scheduling and manual publishing
InPublish == Within(World, 1, MaxPublishUndo, MaxPublishCalls)

NextPublish ==
    \/ IngestEntry("u1", <<"h", "i">>) /\ InPublish'
    \/ \E e \in DOMAIN entries :
            GenerateDrafts(e, <<"x">>, FALSE, FALSE, NoOracle) /\ InPublish'
    \/ \E d \in DOMAIN drafts, s \in {"approved", "rejected"} :
            SetDraftDecision("u1", d, s) /\ InPublish'
    \/ \E d \in DOMAIN drafts, t \in Times : ScheduleDraft("u1", d, t) /\ InPublish'
    \/ \E d \in DOMAIN drafts, force \in BOOLEAN, fate \in Fates :
            PublishDraft(d, AllClients, force, fate) /\ InPublish'

SpecPublish == Init /\ [][NextPublish]_vars

\* one user, one entry, a draft per platform: scheduling and the scheduler sweep
InSweep == Within(World, 1, MaxSweepUndo, MaxSweepCalls)

NextSweep ==
    \/ IngestEntry("u1", <<"h", "i">>) /\ InSweep'
    \/ \E e \in DOMAIN entries :
            GenerateDrafts(e, <<"x", "threads">>, FALSE, FALSE, NoOracle) /\ InSweep'
    \/ \E d \in DOMAIN drafts, t \in Times : ScheduleDraft("u1", d, t) /\ InSweep'
    \/ \E now \in Times, fates \in [DOMAIN drafts -> Fates] :
            RunSchedulerOnce(now, AllClients, fates) /\ InSweep'

SpecSweep == Init /\ [][NextSweep]_vars

----------------------------------------------------------------------------
(* publish_draft and run_scheduler_once statement by statement: every      *)
(* statement on the connection commits at once, and the platform call lies *)
(* between the read of the draft and the writes                            *)

Step(name, p, draft_id) ==
    [NoLast EXCEPT !.op = name, !.user = p, !.id = draft_id]

\* the loop of run_scheduler_once moves on; publish_draft alone returns
Advance(pub) ==
    IF Tail(pub.queue) = <<>> THEN Idle
    ELSE [pub EXCEPT !.pc = "get_draft", !.queue = Tail(pub.queue),
                     !.draft = NoDraft, !.outcome = ""]

BotIdle == publishers["bot"].pc = "idle"

\* run_scheduler_once line 451: the due list is read once
SweepBegin(p, now) ==
    LET due == list_due_scheduled_drafts(World, now) IN
    /\ publishers[p].pc = "idle"
    /\ publishers' = [publishers EXCEPT ![p] =
          IF due = <<>> THEN Idle
          ELSE [Idle EXCEPT !.pc = "get_draft", !.op = "run_scheduler_once",
                            !.queue = due, !.force = TRUE]]
    /\ last' = [Step("list_due_scheduled_drafts", p, NoId) EXCEPT !.now = now]
    /\ UNCHANGED <<entries, drafts, publish_logs, undo_actions, sqlite_sequence,
                   client_calls, llm_calls, router_calls, provider_calls, sessions,
          user_states, created_drafts, schema, legacy, config>>

\* the bot's /publish and publish button
PublishBegin(p, draft_id, force) ==
    /\ publishers[p].pc = "idle"
    /\ publishers' = [publishers EXCEPT ![p] =
          [Idle EXCEPT !.pc = "get_draft", !.op = "publish_draft",
                       !.queue = <<draft_id>>, !.force = force]]
    /\ last' = [Step("publish_begin", p, draft_id) EXCEPT !.force = force]
    /\ UNCHANGED <<entries, drafts, publish_logs, undo_actions, sqlite_sequence,
                   client_calls, llm_calls, router_calls, provider_calls, sessions,
          user_states, created_drafts, schema, legacy, config>>

\* publish_draft lines 382-403: read the row, then decide on what was read
GetDraft(p, clients) ==
    LET pub      == publishers[p]
        draft_id == Head(pub.queue)
        draft    == [id       |-> draft_id,
                     platform |-> drafts[draft_id].platform,
                     content  |-> drafts[draft_id].content,
                     status   |-> drafts[draft_id].status]
        returns  == \/ draft_id \notin DOMAIN drafts
                    \/ approval_gate_closed(config, pub.force, draft.status)
                    \/ ~validate_draft(draft.platform, draft.content, config).ok
                    \/ draft.platform \notin clients
    IN /\ pub.pc = "get_draft"
       /\ publishers' = [publishers EXCEPT ![p] =
             IF returns THEN Advance(pub)
             ELSE [pub EXCEPT !.pc = "client_publish", !.draft = draft]]
       /\ last' = Step("get_draft", p, draft_id)
       /\ UNCHANGED <<entries, drafts, publish_logs, undo_actions, sqlite_sequence,
                      client_calls, llm_calls, router_calls, provider_calls, sessions,
          user_states, created_drafts, schema, legacy, config>>

\* line 406: the platform call, made with the content that was read
ClientPublish(p, fate) ==
    LET pub     == publishers[p]
        outcome == client_publish(pub.draft.platform, pub.draft.content,
                                  effective_dry_run(World, config), fate)
    IN /\ pub.pc = "client_publish"
       /\ Commit(invoke_client(World, pub.draft.id, outcome))
       /\ publishers' = [publishers EXCEPT ![p] =
             [pub EXCEPT !.pc = "create_publish_log", !.outcome = outcome]]
       /\ last' = Step("client_publish", p, pub.draft.id)
       /\ UNCHANGED config

\* lines 407-414 and 424-431: the log row of the attempt
CreatePublishLog(p) ==
    LET pub == publishers[p]
        ok  == pub.outcome = "ok"
    IN /\ pub.pc = "create_publish_log"
       /\ Commit(create_publish_log(World, pub.draft.id, pub.draft.platform, ok,
                                    IF ok THEN "" ELSE pub.outcome))
       /\ publishers' = [publishers EXCEPT ![p] =
             IF ok THEN [pub EXCEPT !.pc = "update_draft_status"] ELSE Advance(pub)]
       /\ last' = Step("create_publish_log", p, pub.draft.id)
       /\ UNCHANGED config

\* line 415: UPDATE drafts SET status = 'published' WHERE id = ?
UpdateDraftStatus(p) ==
    LET pub == publishers[p] IN
    /\ pub.pc = "update_draft_status"
    /\ Commit(update_draft_status(World, pub.draft.id, "published", NoTime))
    /\ publishers' = [publishers EXCEPT ![p] = Advance(pub)]
    /\ last' = Step("update_draft_status", p, pub.draft.id)
    /\ UNCHANGED config

\* one entry and its draft for x, scheduled by the bot; two scheduler jobs and
\* the bot's own publish run against it
InRace == Within(World, 1, MaxRaceUndo, MaxRaceCalls)

NextRace ==
    \/ BotIdle /\ IngestEntry("u1", <<"h", "i">>) /\ InRace'
    \/ \E e \in DOMAIN entries :
          BotIdle /\ GenerateDrafts(e, <<"x">>, FALSE, FALSE, NoOracle) /\ InRace'
    \/ \E d \in DOMAIN drafts, t \in Times :
          BotIdle /\ ScheduleDraft("u1", d, t) /\ InRace'
    \/ \E p \in Schedulers, now \in Times : SweepBegin(p, now)
    \/ \E d \in DOMAIN drafts, force \in BOOLEAN : PublishBegin("bot", d, force)
    \/ \E p \in Procs : GetDraft(p, AllClients)
    \/ \E p \in Procs, fate \in Fates : ClientPublish(p, fate) /\ InRace'
    \/ \E p \in Procs : CreatePublishLog(p)
    \/ \E p \in Procs : UpdateDraftStatus(p)

SpecRace == Init /\ [][NextRace]_vars

\* set_draft_decision statement by statement.  Lines 249-253: the draft is read
\* and its status and time are kept
GetDraftForDecision(p, user_id, draft_id, new_status) ==
    /\ publishers[p].pc = "idle"
    /\ publishers' = [publishers EXCEPT ![p] =
          IF draft_id \notin DOMAIN drafts THEN Idle
          ELSE [Idle EXCEPT !.pc = "decision_update", !.op = "set_draft_decision",
                            !.queue = <<draft_id>>, !.outcome = new_status,
                            !.user = user_id, !.previous = StatusPayload(World, draft_id)]]
    /\ last' = [Step("decision_get_draft", p, draft_id) EXCEPT !.text = <<new_status>>]
    /\ UNCHANGED <<entries, drafts, publish_logs, undo_actions, sqlite_sequence,
                   client_calls, llm_calls, router_calls, provider_calls, sessions,
                   user_states, created_drafts, schema, legacy, config>>

\* line 254: update_draft_status, which commits (models.py 293-304)
DecisionUpdate(p) ==
    LET pub == publishers[p] IN
    /\ pub.pc = "decision_update"
    /\ Commit(update_draft_status(World, Head(pub.queue), pub.outcome,
                                  pub.previous.previous_scheduled_at))
    /\ publishers' = [publishers EXCEPT ![p] = [pub EXCEPT !.pc = "decision_undo"]]
    /\ last' = Step("decision_update", p, Head(pub.queue))
    /\ UNCHANGED config

\* lines 255-265: create_undo_action, which commits
DecisionUndo(p) ==
    LET pub == publishers[p] IN
    /\ pub.pc = "decision_undo"
    /\ Commit(create_undo_action(World, pub.user, "draft_status_update", pub.previous))
    /\ publishers' = [publishers EXCEPT ![p] = Idle]
    /\ last' = Step("decision_undo", p, Head(pub.queue))
    /\ UNCHANGED config

\* the process stops where it is and is started again
Stop(p) ==
    /\ publishers[p].pc # "idle"
    /\ publishers' = [publishers EXCEPT ![p] = Idle]
    /\ last' = Step("stop", p, NoId)
    /\ UNCHANGED <<entries, drafts, publish_logs, undo_actions, sqlite_sequence,
                   client_calls, llm_calls, router_calls, provider_calls, sessions,
                   user_states, created_drafts, schema, legacy, config>>

\* the bot's approve and reject buttons on the drafts of one entry, and /undo
MaxDecisionUndo == 4

InDecision == Within(World, 1, MaxDecisionUndo, 0)

NextDecision ==
    \/ BotIdle /\ IngestEntry("u1", <<"h", "i">>) /\ InDecision'
    \/ \E e \in DOMAIN entries :
          BotIdle /\ GenerateDrafts(e, <<"x">>, FALSE, FALSE, NoOracle) /\ InDecision'
    \/ \E d \in 1..(sqlite_sequence.drafts + 1), new_status \in {"approved", "rejected"} :
          /\ Len(undo_actions) < MaxDecisionUndo
          /\ GetDraftForDecision("bot", "u1", d, new_status)
    \/ DecisionUpdate("bot")
    \/ DecisionUndo("bot")
    \/ Stop("bot")
    \/ BotIdle /\ UndoLastAction("u1") /\ InDecision'

SpecDecision == InitDefault /\ [][NextDecision]_vars

\* scheduler.py 13-17: the job reads the clock, so its sweeps reach the latest time
LastTime == CHOOSE t \in Times : \A u \in Times : u <= t

\* the bot schedules pending drafts and touches nothing else; one scheduler job
\* sweeps, and its client calls fail a bounded number of times
InDeliver == Within(World, 1, MaxSweepUndo, MaxSweepCalls)

NextDeliver ==
    \/ IngestEntry("u1", <<"h", "i">>) /\ InDeliver'
    \/ \E e \in DOMAIN entries :
          GenerateDrafts(e, <<"x", "threads">>, FALSE, FALSE, NoOracle) /\ InDeliver'
    \/ \E d \in DOMAIN drafts, t \in Times :
          drafts[d].status = "pending" /\ ScheduleDraft("u1", d, t) /\ InDeliver'
    \/ \E now \in Times : SweepBegin("scheduler_a", now)
    \/ GetDraft("scheduler_a", AllClients)
    \/ \E fate \in Fates \ {"ok"} : ClientPublish("scheduler_a", fate) /\ InDeliver'
    \/ ClientPublish("scheduler_a", "ok")
    \/ CreatePublishLog("scheduler_a")
    \/ UpdateDraftStatus("scheduler_a")

\* the job queue keeps calling run_due_scheduler, a sweep once begun runs to its
\* end, and the client's publish returns in the end
FairDeliver ==
    /\ WF_vars(SweepBegin("scheduler_a", LastTime))
    /\ WF_vars(GetDraft("scheduler_a", AllClients))
    /\ SF_vars(ClientPublish("scheduler_a", "ok"))
    /\ WF_vars(CreatePublishLog("scheduler_a"))
    /\ WF_vars(UpdateDraftStatus("scheduler_a"))

SpecDeliver == InitDefault /\ [][NextDeliver]_vars /\ FairDeliver

\* two users deciding on, scheduling and undoing around one entry's draft
InUndo == Within(World, 1, MaxUndoLog, 0)

Decisions == {"approved", "rejected"}

NextUndo ==
    \/ IngestEntry("u1", <<"h", "i">>) /\ InUndo'
    \/ \E e \in DOMAIN entries :
          GenerateDrafts(e, <<"x">>, FALSE, FALSE, NoOracle) /\ InUndo'
    \/ \E u \in Users, d \in DOMAIN drafts, st \in Decisions :
          SetDraftDecision(u, d, st) /\ InUndo'
    \/ \E u \in Users, d \in DOMAIN drafts, t \in Times :
          ScheduleDraft(u, d, t) /\ InUndo'
    \/ \E u \in Users : UndoLastAction(u) /\ InUndo'

SpecUndo == Init /\ [][NextUndo]_vars

\* the same with rows of an unhandled type in the log
UnhandledTypes == {"draft_edit"}

NextUndoLog ==
    \/ IngestEntry("u1", <<"h", "i">>) /\ InUndo'
    \/ \E e \in DOMAIN entries :
          GenerateDrafts(e, <<"x">>, FALSE, FALSE, NoOracle) /\ InUndo'
    \/ \E u \in Users, d \in DOMAIN drafts :
          SetDraftDecision(u, d, "approved") /\ InUndo'
    \/ \E u \in Users, type \in UnhandledTypes : CreateUndoAction(u, type) /\ InUndo'
    \/ \E u \in Users : UndoLastAction(u) /\ InUndo'

SpecUndoLog == InitDefault /\ [][NextUndoLog]_vars

\* generation, regeneration and edit of the drafts of one entry under every
\* limit of x, with and without a router, and their publication
InDraft ==
    /\ sqlite_sequence.entries <= 1
    /\ sqlite_sequence.drafts <= MaxDrafts
    /\ Len(client_calls) <= MaxDraftCalls

NextDraft ==
    \/ entries = <<>> /\ IngestEntry("u1", <<"h", "i">>) /\ InDraft'
    \/ \E e \in DOMAIN entries, oracle \in Oracles :
          GenerateDrafts(e, <<"mastodon", "x">>, TRUE, FALSE, oracle) /\ InDraft'
    \/ \E e \in DOMAIN entries, has_router \in BOOLEAN :
          GenerateDrafts(e, <<>>, has_router, FALSE, NoOracle) /\ InDraft'
    \/ \E d \in DOMAIN drafts, answer \in Answers :
          RegenerateDraft("u1", d, TRUE, answer) /\ InDraft'
    \/ \E d \in DOMAIN drafts, text \in {ShortText, LongText} :
          EditDraft("u1", d, text) /\ InDraft'
    \/ \E d \in DOMAIN drafts : PublishDraft(d, AllClients, FALSE, "ok") /\ InDraft'

SpecDraft == InitWith(DraftConfigs) /\ [][NextDraft]_vars

\* draft versions: new versions of one entry's drafts, and undo
MaxVersionLog == 5

InVersions ==
    /\ sqlite_sequence.entries <= 1
    /\ Len(undo_actions) <= MaxVersionLog

NextVersions ==
    \/ IngestEntry("u1", <<"h", "i">>) /\ InVersions'
    \/ \E e \in DOMAIN entries, platform_list \in {<<"x">>, <<"x", "threads">>} :
          GenerateDrafts(e, platform_list, FALSE, FALSE, NoOracle) /\ InVersions'
    \/ \E d \in DOMAIN drafts : RegenerateDraft("u1", d, FALSE, RouterError) /\ InVersions'
    \/ \E d \in DOMAIN drafts : EditDraft("u1", d, ShortText) /\ InVersions'
    \/ UndoLastAction("u1") /\ InVersions'

SpecVersions == InitDefault /\ [][NextVersions]_vars

\* buffered characters in SpecCapture; drafts and undo log rows in SpecStates
MaxBuffer == 3

MaxBotDrafts == 2

MaxBotUndo == 4

\* the longest text and the largest limit of SpecTruncate
MaxTextLen == 6

MaxLimit == 5

\* two users' drafts, approval, and the publish queue
MaxQueueDrafts == 3

MaxQueueCalls == 2

InQueue ==
    /\ sqlite_sequence.drafts <= MaxQueueDrafts
    /\ Len(client_calls) <= MaxQueueCalls

NextQueue ==
    \/ entries = <<>> /\ IngestEntry("u1", <<"h", "i">>) /\ InQueue'
    \/ sqlite_sequence.entries = 1 /\ IngestEntry("u2", <<"a", " ", "b">>) /\ InQueue'
    \/ \E e \in DOMAIN entries :
          /\ \A d \in DOMAIN drafts : drafts[d].entry_id # e
          /\ GenerateDrafts(e, IF entries[e].user_id = "u1" THEN <<"x", "threads">> ELSE <<"x">>,
                            FALSE, FALSE, NoOracle)
          /\ InQueue'
    \/ \E d \in DOMAIN drafts :
          /\ drafts[d].status = "pending"
          /\ SetDraftDecision(entries[drafts[d].entry_id].user_id, d, "approved")
          /\ InQueue'
    \/ \E u \in Users, fates \in [DOMAIN drafts -> Fates] :
          PublishApprovedQueue(u, AllClients, fates) /\ InQueue'

SpecQueue == InitDefault /\ [][NextQueue]_vars

\* the platform clients on their own and under publish_draft, with the
\* dry-run setting on in one configuration and off in the other
NextDryRun ==
    \/ entries = <<>> /\ IngestEntry("u1", <<"h", "i">>) /\ InPublish'
    \/ \E e \in DOMAIN entries :
          /\ drafts = <<>>
          /\ GenerateDrafts(e, <<"x", "threads">>, FALSE, FALSE, NoOracle)
          /\ InPublish'
    \/ \E d \in DOMAIN drafts, decision \in {"approved", "rejected"} :
          SetDraftDecision("u1", d, decision) /\ InPublish'
    \/ \E d \in DOMAIN drafts, clients \in ClientSets, force \in BOOLEAN, fate \in Fates :
          PublishDraft(d, clients, force, fate) /\ InPublish'
    \/ \E platform \in PlatformSet, content \in RawTexts, dry_run \in BOOLEAN,
          fate \in Fates :
          /\ entries = <<>>
          /\ ClientPublish_alone(platform, content, dry_run, fate)

SpecDryRun ==
    /\ InitWith({Config(TRUE, TRUE, FALSE, SmallLimits),
                 Config(TRUE, FALSE, FALSE, SmallLimits)})
    /\ [][NextDryRun]_vars

\* every text of letters and blanks up to a length, cut to every limit
TextsUpTo(n) == UNION { [1..k -> {"a", " "}] : k \in 0..n }

NextTruncate ==
    \E content \in TextsUpTo(MaxTextLen), limit \in 0..MaxLimit :
        TruncationAndValidation(content, limit)

SpecTruncate == InitDefault /\ [][NextTruncate]_vars

\* capture sessions of two users, with an Edit tap that takes the next message
InCapture ==
    /\ sqlite_sequence.entries <= 1
    /\ \A s \in sessions : Len(s.buffer_text) <= MaxBuffer

NextCapture ==
    \/ \E u \in Users : capture(u) /\ InCapture'
    \/ \E u \in Users : done(u) /\ InCapture'
    \/ \E m \in ({"u1"} \X {<<>>, <<" ">>, <<" ", "a">>, <<"b">>}) \cup {<<"u2", <<"b">>>>} :
          message_handler(m[1], m[2]) /\ InCapture'
    \/ \E u \in Users : AppendCaptureText(u, <<"b">>) /\ InCapture'
    \/ callback_handler("u1", "edit", 1, FALSE, RouterError, "ok") /\ InCapture'

SpecCapture == InitDefault /\ [][NextCapture]_vars

\* the Edit and Schedule buttons and the text messages that follow them:
\* <<" ", "1">> is a time, <<"h", "i">> is not
InStates ==
    /\ sqlite_sequence.entries <= 1
    /\ sqlite_sequence.drafts <= MaxBotDrafts
    /\ Len(undo_actions) <= MaxBotUndo

NextStates ==
    \/ \E m \in ({"u1"} \X {<<"h", "i">>, <<" ", "1">>}) \cup {<<"u2", <<"h", "i">>>>} :
          message_handler(m[1], m[2]) /\ InStates'
    \/ \E u \in Users, action \in {"edit", "schedule"}, d \in DOMAIN drafts :
          callback_handler(u, action, d, FALSE, RouterError, "ok") /\ InStates'
    \/ \E e \in DOMAIN entries :
          /\ drafts = <<>>
          /\ GenerateDrafts(e, <<"x">>, FALSE, FALSE, NoOracle)
          /\ InStates'

SpecStates == InitDefault /\ [][NextStates]_vars

\* migrations on a new file and on one left at version 1, with entries stored
\* once the tables exist
REQUIRED_TABLES ==
    {"schema_migrations", "entries", "drafts", "publish_logs", "llm_calls",
     "sessions", "settings", "user_states", "undo_actions"}

AtVersion1 ==
    [tables            |-> MIGRATIONS[1].tables,
     schema_migrations |-> <<1>>,
     executed          |-> <<1>>]

NextMigrate ==
    \/ ApplyMigrations
    \/ \E u \in Users, t \in RawTexts :
          /\ REQUIRED_TABLES \subseteq schema.tables
          /\ IngestEntry(u, t)
          /\ InIngest'

SpecMigrate ==
    /\ InitOn({Config(TRUE, FALSE, FALSE, SmallLimits)}, {NewFile, AtVersion1})
    /\ [][NextMigrate]_vars

\* rows and their deletion: publishing, a second user's edit, and undo
NextStorage ==
    \/ IngestEntry("u1", <<"h", "i">>) /\ InPublish'
    \/ \E e \in DOMAIN entries :
          GenerateDrafts(e, <<"x">>, FALSE, FALSE, NoOracle) /\ InPublish'
    \/ \E d \in DOMAIN drafts : EditDraft("u2", d, ShortText) /\ InPublish'
    \/ \E d \in DOMAIN drafts, fate \in Fates :
          PublishDraft(d, AllClients, TRUE, fate) /\ InPublish'
    \/ \E u \in Users : UndoLastAction(u) /\ InPublish'

SpecStorage == InitDefault /\ [][NextStorage]_vars

\* messages with directives, /draft, the Regenerate button and /undo of one
\* user, with x as the only enabled platform
MaxBotEntries == 2

MaxPrivateDrafts == 2

InPrivate ==
    /\ sqlite_sequence.entries <= MaxBotEntries
    /\ sqlite_sequence.drafts <= MaxPrivateDrafts

BotTexts ==
    { <<"h", "i", " ", "#", "p", "r", "i", "v", "a", "t", "e">>,
      <<"#", "P", "r", "i", "v", "a", "t", "e", " ", "#", "p", "u", "b", "l", "i", "s", "h",
        " ", "x", ",", " ", "b">>,
      <<"#", "d", "r", "a", "f", "t", " ", "y", "o">>,
      <<"#", "p", "u", "b", "l", "i", "s", "h", " ", "t", "w", "i", "t", "t", "e", "r",
        " ", "h", "i">>,
      <<"a">> }

NextPrivate ==
    \/ \E text \in BotTexts : message_handler("u1", text) /\ InPrivate'
    \/ \E args \in {<<>>, <<<<"x">>>>} :
          draft_command("u1", args, FALSE, NoOracle) /\ InPrivate'
    \/ \E d \in DOMAIN drafts :
          callback_handler("u1", "regenerate", d, FALSE, RouterError, "ok") /\ InPrivate'
    \/ UndoLastAction("u1") /\ InPrivate'

SpecPrivate ==
    /\ InitWith({[Config(TRUE, FALSE, FALSE, SmallLimits) EXCEPT !.platforms_enabled = {"x"}]})
    /\ [][NextPrivate]_vars

\* every operation on the drafts of one entry, with the decisions of the bot
MaxLifeUndo == 3

MaxLifeCalls == 1

InLife == Within(World, 1, MaxLifeUndo, MaxLifeCalls)

NextLife ==
    \/ IngestEntry("u1", <<"h", "i">>) /\ InLife'
    \/ \E e \in DOMAIN entries :
          GenerateDrafts(e, <<"x">>, FALSE, FALSE, NoOracle) /\ InLife'
    \/ \E d \in DOMAIN drafts, st \in Decisions : SetDraftDecision("u1", d, st) /\ InLife'
    \/ \E d \in DOMAIN drafts, t \in Times : ScheduleDraft("u1", d, t) /\ InLife'
    \/ \E d \in DOMAIN drafts, force \in BOOLEAN, fate \in Fates :
          PublishDraft(d, AllClients, force, fate) /\ InLife'
    \/ \E now \in Times, fates \in [DOMAIN drafts -> Fates] :
          RunSchedulerOnce(now, AllClients, fates) /\ InLife'
    \/ \E d \in DOMAIN drafts : EditDraft("u1", d, ShortText) /\ InLife'
    \/ \E d \in DOMAIN drafts : RegenerateDraft("u1", d, FALSE, RouterError) /\ InLife'
    \/ UndoLastAction("u1") /\ InLife'

SpecLife == InitDefault /\ [][NextLife]_vars

\* new versions by edit and by regeneration, whatever the router does
NextSupersede ==
    \/ IngestEntry("u1", <<"h", "i">>) /\ InVersions'
    \/ \E e \in DOMAIN entries :
          GenerateDrafts(e, <<"x">>, FALSE, FALSE, NoOracle) /\ InVersions'
    \/ \E d \in 1..(sqlite_sequence.drafts + 1), answer \in Answers \cup {RouterCrash} :
          RegenerateDraft("u1", d, TRUE, answer) /\ InVersions'
    \/ \E u \in Users, d \in 1..(sqlite_sequence.drafts + 1) :
          EditDraft(u, d, LongText) /\ InVersions'

SpecSupersede ==
    InitWith({Config(TRUE, FALSE, TRUE, SmallLimits)}) /\ [][NextSupersede]_vars

\* the router alone
MaxLlmCalls == 2

InRouter == Len(llm_calls) <= MaxLlmCalls

NextRouter ==
    \/ \E routes \in RouteLists, fates \in ProviderFates :
          RouterGenerate(Providers, NoModelsFile, [summarize |-> routes], "summarize", fates)
            /\ InRouter'
    \/ \E routes \in {<<>>, <<RouteA>>}, stage \in {"summarize", "draft_x"},
          fates \in ProviderFates :
          RouterGenerate(Providers, [summarize |-> <<RouteB>>], [summarize |-> routes],
                         stage, fates)
            /\ InRouter'

SpecRouter == InitDefault /\ [][NextRouter]_vars

\* summarize_entry over the router, for entries shorter and longer than a summary
LongEntry == [i \in 1..(SummaryChars + 1) |-> "a"]

SummaryConfigs == {Config(TRUE, FALSE, enabled, SmallLimits) : enabled \in BOOLEAN}

NextSummary ==
    \/ \E text \in {<<"h", "i">>, LongEntry} : IngestEntry("u1", text) /\ InRouter'
    \/ \E e \in 1..(sqlite_sequence.entries + 1), has_router \in BOOLEAN,
          routes \in {<<>>, <<RouteA>>, <<RouteA, RouteB>>, <<RouteGone, RouteBad>>},
          fates \in ProviderFates :
          SummarizeEntry(e, has_router, routes, fates) /\ InRouter'

SpecSummary == InitWith(SummaryConfigs) /\ [][NextSummary]_vars

\* calls made with generation disabled in the settings or without a router
NoGeneration(has_router) == ~(config.llm_enabled /\ has_router)

MaxFallbackDrafts == 4

InFallback ==
    /\ sqlite_sequence.entries <= 1
    /\ sqlite_sequence.drafts <= MaxFallbackDrafts

\* a router that would answer everything, were it asked
Willing == Oracle(RouterOk(ShortText), RouterOk(ShortText), RouterError)

NextFallback ==
    \/ \E text \in {<<"h", "i">>, LongEntry} : IngestEntry("u1", text) /\ InFallback'
    \/ \E e \in DOMAIN entries, has_router \in BOOLEAN :
          /\ NoGeneration(has_router)
          /\ SummarizeEntry(e, has_router, <<RouteA>>, [p \in Providers |-> "ok"])
    \/ \E e \in DOMAIN entries, has_router \in BOOLEAN,
          platform_list \in {<<>>, <<"x", "threads">>} :
          /\ NoGeneration(has_router)
          /\ GenerateDrafts(e, platform_list, has_router, FALSE, Willing) /\ InFallback'
    \/ \E d \in DOMAIN drafts, has_router \in BOOLEAN :
          /\ NoGeneration(has_router)
          /\ RegenerateDraft("u1", d, has_router, RouterOk(ShortText)) /\ InFallback'
    \/ \E d \in DOMAIN drafts : EditDraft("u1", d, ShortText) /\ InFallback'

SpecFallback == InitWith(SummaryConfigs) /\ [][NextFallback]_vars

----------------------------------------------------------------------------
(* The legacy pipeline: src/core/publisher.py over src/tools/data_tools.py. *)
(* Its database holds posts and publish_logs; utc_now_iso reads the clock,  *)
(* counted here in whole days                                               *)

\* the rolling window of run_publishing_pipeline, in days
WindowDays == 7

store_post_draft(lg, diary_id, platform, content, status) ==
    [lg EXCEPT !.posts = Append(@, [diary_id   |-> diary_id,
                                    platform   |-> platform,
                                    content    |-> content,
                                    status     |-> status,
                                    created_at |-> lg.clock])]

set_post_status(lg, post_id, status) ==
    IF post_id \in DOMAIN lg.posts
    THEN [lg EXCEPT !.posts[post_id].status = status]
    ELSE lg

mark_post_as_published(lg, post_id) == set_post_status(lg, post_id, "published")

log_publish_result(lg, post_id, platform, success, api_response_excerpt) ==
    [lg EXCEPT !.publish_logs = Append(@, [post_id   |-> post_id,
                                           platform  |-> platform,
                                           timestamp |-> lg.clock,
                                           success   |-> success,
                                           api_response_excerpt |-> api_response_excerpt])]

count_linkedin_publishes_today(lg, days) ==
    Cardinality({i \in DOMAIN lg.publish_logs :
                    /\ lg.publish_logs[i].platform = "linkedin"
                    /\ lg.publish_logs[i].success
                    /\ lg.publish_logs[i].timestamp >= lg.clock})

count_linkedin_publishes_last_days(lg, days) ==
    Cardinality({i \in DOMAIN lg.publish_logs :
                    /\ lg.publish_logs[i].platform = "linkedin"
                    /\ lg.publish_logs[i].success
                    /\ lg.publish_logs[i].timestamp >= lg.clock - days})

\* ORDER BY created_at ASC: rows are stored in the order of the clock
get_approved_posts(lg) ==
    SelectSeq([i \in 1..Len(lg.posts) |-> i],
              LAMBDA post_id : lg.posts[post_id].status = "approved")

\* validation_tools.py 43-78: the text is stripped and measured, never cut
_validate_for_platform(platform, text, limits) ==
    LET cleaned == strip(text)
        ok      == Len(cleaned) <= limits[platform]
    IN [ok |-> ok, text |-> cleaned, error |-> IF ok THEN "None" ELSE "too_long"]

\* publish_x_post, publish_threads_post, publish_linkedin_post: a dry run
\* returns ok without a request; an error is returned, never raised
_publish_to_platform(platform, text, dry_run, fate) ==
    IF dry_run THEN [ok |-> TRUE, error |-> "None"]
    ELSE IF fate = "ok" THEN [ok |-> TRUE, error |-> "None"]
    ELSE [ok |-> FALSE, error |-> fate]

\* lines 143-207: the loop over the posts to publish
RECURSIVE publish_posts(_, _, _, _, _)
publish_posts(lg, cfg, posts_to_publish, linkedin_count, fates) ==
    IF posts_to_publish = <<>> THEN lg
    ELSE
    LET post_id    == Head(posts_to_publish)
        rest       == Tail(posts_to_publish)
        platform   == lg.posts[post_id].platform
        validation == _validate_for_platform(platform, lg.posts[post_id].content,
                                             cfg.platform_limits)
        client_result == _publish_to_platform(platform, validation.text, cfg.dry_run,
                                              fates[post_id])
        called     == [lg EXCEPT !.client_calls =
                          Append(@, [post_id |-> post_id, platform |-> platform,
                                     text |-> validation.text])]
        logged     == log_publish_result(called, post_id, platform, client_result.ok,
                                         client_result.error)
    IN IF platform = "linkedin" /\ linkedin_count >= cfg.linkedin_per_week
       THEN publish_posts(lg, cfg, rest, linkedin_count, fates)
       ELSE IF ~validation.ok
       THEN publish_posts(log_publish_result(lg, post_id, platform, FALSE,
                                             "validation_error"),
                          cfg, rest, linkedin_count, fates)
       ELSE IF client_result.ok
       THEN publish_posts(mark_post_as_published(logged, post_id), cfg, rest,
                          IF platform = "linkedin" THEN linkedin_count + 1
                          ELSE linkedin_count, fates)
       ELSE publish_posts(logged, cfg, rest, linkedin_count, fates)

run_publishing_pipeline(lg, cfg, fates) ==
    LET linkedin_count   == count_linkedin_publishes_last_days(lg, WindowDays)
        posts_to_publish == SelectSeq(get_approved_posts(lg),
                               LAMBDA post_id :
                                   lg.posts[post_id].platform \in cfg.platform_enabled)
    IN publish_posts(lg, cfg, posts_to_publish, linkedin_count, fates)

\* the legacy orchestrator stores a post; a post enters as a draft for the
\* review step or approved at once
StorePostDraft(platform, content, status) ==
    /\ Commit([World EXCEPT !.legacy = store_post_draft(legacy, 1, platform, content, status)])
    /\ last' = [NoLast EXCEPT !.op = "store_post_draft", !.id = Len(legacy.posts) + 1]
    /\ UNCHANGED <<config, publishers>>

SetPostStatus(post_id, status) ==
    /\ Commit([World EXCEPT !.legacy = set_post_status(legacy, post_id, status)])
    /\ last' = [NoLast EXCEPT !.op = "set_post_status", !.id = post_id]
    /\ UNCHANGED <<config, publishers>>

\* days pass
Tick(days) ==
    /\ Commit([World EXCEPT !.legacy.clock = @ + days])
    /\ last' = [NoLast EXCEPT !.op = "tick"]
    /\ UNCHANGED <<config, publishers>>

\* a run of the pipeline at the present clock; last.id is the weekly cap
RunPublishingPipeline(cfg, fates) ==
    /\ Commit([World EXCEPT !.legacy = run_publishing_pipeline(legacy, cfg, fates)])
    /\ last' = [NoLast EXCEPT !.op = "run_publishing_pipeline",
                              !.id = cfg.linkedin_per_week, !.force = cfg.dry_run,
                              !.now = legacy.clock,
                              !.text = IF "x" \in cfg.platform_enabled THEN <<"x">> ELSE <<>>]
    /\ UNCHANGED <<config, publishers>>

\* the settings of the legacy pipeline: a weekly cap of 1 or 2
LegacyConfigs ==
    { [dry_run |-> FALSE, linkedin_per_week |-> cap,
       platform_enabled |-> {"x", "threads", "linkedin"},
       platform_limits |-> [x |-> 3, threads |-> 3, linkedin |-> 3]] :
        cap \in 1..2 }

MaxPosts == 3

MaxPostLogs == 3

InLegacy ==
    /\ Len(legacy.posts) <= MaxPosts
    /\ Len(legacy.publish_logs) <= MaxPostLogs
    /\ legacy.clock <= WindowDays + 1

NextLegacy ==
    \/ \E content \in {<<"h", "i">>, <<"l", "o", "n", "g">>} :
          StorePostDraft("linkedin", content, "approved") /\ InLegacy'
    \/ legacy.posts = <<>> /\ StorePostDraft("x", <<" ", "h", "i">>, "draft") /\ InLegacy'
    \/ \E post_id \in DOMAIN legacy.posts :
          legacy.posts[post_id].status = "draft" /\ SetPostStatus(post_id, "approved")
    \/ Tick(WindowDays) /\ InLegacy'
    \/ legacy.clock >= WindowDays /\ Tick(1) /\ InLegacy'
    \/ \E cfg \in LegacyConfigs, fates \in [DOMAIN legacy.posts -> Fates] :
          RunPublishingPipeline(cfg, fates) /\ InLegacy'

SpecLegacy == InitDefault /\ [][NextLegacy]_vars

----------------------------------------------------------------------------
(* Helpers of the properties *)

\* the rows a log gained in a step
Gained(before, after) == SubSeq(after, Len(before) + 1, Len(after))

Extends(before, after) ==
    /\ Len(before) <= Len(after)
    /\ SubSeq(after, 1, Len(before)) = before

RowsOf(log, draft_id) == {i \in DOMAIN log : log[i].draft_id = draft_id}

OkCalls(calls, draft_id) ==
    {i \in DOMAIN calls : calls[i].draft_id = draft_id /\ calls[i].outcome = "ok"}

SuccessRows(log, draft_id) ==
    {i \in DOMAIN log : log[i].draft_id = draft_id /\ log[i].success}

FailureRows(log, draft_id) ==
    {i \in DOMAIN log : log[i].draft_id = draft_id /\ ~log[i].success}

GateClosed(draft_id, force) ==
    /\ config.approval_required
    /\ ~force
    /\ drafts[draft_id].status \notin {"approved", "scheduled"}

FitsLimit(draft_id) ==
    Len(drafts[draft_id].content) <= config.platform_limits[drafts[draft_id].platform]

IsDue(draft_id, now) ==
    /\ drafts[draft_id].status = "scheduled"
    /\ drafts[draft_id].scheduled_at # NoTime
    /\ drafts[draft_id].scheduled_at <= now

----------------------------------------------------------------------------
(* Properties of publish_draft *)

\* C1: with approval required and no force, publish_draft on a draft that is
\* neither approved nor scheduled returns approval_required, invokes no client,
\* writes no publish-log row and leaves the draft as it was.
C1_ApprovalRequired ==
    [][ ( /\ last'.op = "publish_draft"
          /\ last'.id \in DOMAIN drafts
          /\ config.approval_required
          /\ ~last'.force
          /\ drafts[last'.id].status \notin {"approved", "scheduled"} )
        => /\ ~last'.ok
           /\ last'.reason = "approval_required"
           /\ client_calls' = client_calls
           /\ publish_logs' = publish_logs
           /\ drafts' = drafts ]_vars

C1_Witness ==
    /\ last.op = "publish_draft"
    /\ last.reason = "approval_required"
    /\ last.id \in DOMAIN drafts
    /\ drafts[last.id].status = "pending"
    /\ publish_logs = <<>>

\* C2: past the gate and the length check, with a client that returns, exactly
\* one success row is logged for the draft, the draft becomes published with
\* scheduled_at cleared, and the call returns ok.
C2_PublishSuccess ==
    [][ ( /\ last'.op = "publish_draft"
          /\ last'.id \in DOMAIN drafts
          /\ ~GateClosed(last'.id, last'.force)
          /\ FitsLimit(last'.id)
          /\ drafts[last'.id].platform \in last'.clients
          /\ \A i \in DOMAIN Gained(client_calls, client_calls') :
                Gained(client_calls, client_calls')[i].outcome = "ok" )
        => /\ last'.ok
           /\ Extends(client_calls, client_calls')
           /\ Gained(client_calls, client_calls')
                = << [draft_id |-> last'.id, outcome |-> "ok"] >>
           /\ Extends(publish_logs, publish_logs')
           /\ Len(publish_logs') = Len(publish_logs) + 1
           /\ publish_logs'[Len(publish_logs')].draft_id = last'.id
           /\ publish_logs'[Len(publish_logs')].success
           /\ DOMAIN drafts' = DOMAIN drafts
           /\ drafts'[last'.id].status = "published"
           /\ drafts'[last'.id].scheduled_at = NoTime
           /\ \A d \in DOMAIN drafts \ {last'.id} : drafts'[d] = drafts[d] ]_vars

C2_Witness ==
    /\ last.op = "publish_draft"
    /\ last.ok
    /\ ~last.force
    /\ config.approval_required
    /\ drafts[last.id].status = "published"
    /\ drafts[last.id].scheduled_at = NoTime
    /\ Cardinality(SuccessRows(publish_logs, last.id)) = 1

\* C3: when the client raises, exactly one failure row with the error text is
\* logged, the draft keeps its status and scheduled_at, the call returns
\* publish_failed, and the same call passes the same checks again.
C3_PublishFailure ==
    [][ ( /\ last'.op = "publish_draft"
          /\ Len(client_calls') > Len(client_calls)
          /\ client_calls'[Len(client_calls')].outcome # "ok" )
        => /\ ~last'.ok
           /\ last'.reason = "publish_failed"
           /\ Extends(client_calls, client_calls')
           /\ Len(client_calls') = Len(client_calls) + 1
           /\ Extends(publish_logs, publish_logs')
           /\ Len(publish_logs') = Len(publish_logs) + 1
           /\ publish_logs'[Len(publish_logs')].draft_id = last'.id
           /\ ~publish_logs'[Len(publish_logs')].success
           /\ publish_logs'[Len(publish_logs')].error
                = client_calls'[Len(client_calls')].outcome
           /\ drafts' = drafts
           /\ \A fate \in Fates :
                LET again == publish_draft(World', config, last'.id, last'.clients,
                                           last'.force, fate)
                IN again.res.ok = (fate = "ok")
                   /\ again.res.reason = (IF fate = "ok" THEN "" ELSE "publish_failed") ]_vars

C3_Witness ==
    /\ last.op = "publish_draft"
    /\ last.reason = "publish_failed"
    /\ drafts[last.id].status = "scheduled"
    /\ drafts[last.id].scheduled_at # NoTime
    /\ Cardinality(FailureRows(publish_logs, last.id)) = 2

----------------------------------------------------------------------------
(* Properties of run_scheduler_once *)

\* the drafts the clients were asked to publish in a step, in order
CalledIn(before, after) ==
    [i \in DOMAIN Gained(before, after) |-> Gained(before, after)[i].draft_id]

TimesIn(seq, x) == Cardinality({i \in DOMAIN seq : seq[i] = x})

DueSet(now) == {d \in DOMAIN drafts : IsDue(d, now)}

\* C4: one sweep invokes the client exactly once for a due scheduled draft and,
\* when that call returns, leaves the draft published and due at no time; no
\* later sweep invokes the client again for a draft that a sweep has published
\* (every client call of SpecSweep is made by a sweep).
C4_SweepPublishesOnce ==
    [][ last'.op = "run_scheduler_once"
        => LET called == CalledIn(client_calls, client_calls') IN
           /\ Extends(client_calls, client_calls')
           /\ \A d \in DOMAIN drafts :
                /\ TimesIn(called, d) = (IF IsDue(d, last'.now) THEN 1 ELSE 0)
                /\ ( IsDue(d, last'.now) /\ OkCalls(client_calls', d) # OkCalls(client_calls, d) )
                     => /\ drafts'[d].status = "published"
                        /\ \A now \in Times : d \notin DueSet(now)'
                /\ OkCalls(client_calls, d) # {} => TimesIn(called, d) = 0 ]_vars

\* C5: a sweep calls publish_draft, forced, for exactly the drafts that are
\* scheduled with a scheduled_at <= now when it starts, in ascending
\* (scheduled_at, id) order, for no other draft, and counts them.
C5_SweepSelectsDue ==
    [][ last'.op = "run_scheduler_once"
        => LET called == CalledIn(client_calls, client_calls')
               ids    == [i \in DOMAIN last'.results |-> last'.results[i].id]
           IN /\ Extends(client_calls, client_calls')
              /\ ids = called
              /\ {called[i] : i \in DOMAIN called} = DueSet(last'.now)
              /\ Len(called) = Cardinality(DueSet(last'.now))
              /\ \A i, j \in DOMAIN called :
                    i < j => \/ drafts[called[i]].scheduled_at < drafts[called[j]].scheduled_at
                             \/ /\ drafts[called[i]].scheduled_at = drafts[called[j]].scheduled_at
                                /\ called[i] < called[j]
              /\ \A i \in DOMAIN last'.results :
                    last'.results[i].reason \in {"", "publish_failed"}
              /\ last'.force ]_vars

C5_Witness ==
    /\ last.op = "run_scheduler_once"
    /\ Len(last.results) = 2
    /\ last.results[1].id > last.results[2].id
    /\ config.approval_required
    /\ \A i \in DOMAIN last.results : last.results[i].ok

\* C6: a due draft whose publish fails in a sweep stays scheduled at the same
\* time, gets a failure row, does not stop the sweep, and is due again at
\* every later time; a sweep that follows attempts it again.
C6_SweepFailureRetried ==
    [][ last'.op = "run_scheduler_once"
        => /\ Len(last'.results) = Cardinality(DueSet(last'.now))
           /\ \A i \in DOMAIN last'.results :
                LET d == last'.results[i].id IN
                ~last'.results[i].ok
                    => /\ last'.results[i].reason = "publish_failed"
                       /\ drafts'[d] = drafts[d]
                       /\ drafts'[d].status = "scheduled"
                       /\ Cardinality(FailureRows(publish_logs', d))
                            = Cardinality(FailureRows(publish_logs, d)) + 1
                       /\ SuccessRows(publish_logs', d) = SuccessRows(publish_logs, d)
                       /\ \A now \in Times :
                             now >= drafts[d].scheduled_at => d \in DueSet(now)'
           /\ last.op = "run_scheduler_once"
                => \A i \in DOMAIN last.results :
                      ( ~last.results[i].ok /\ last'.now >= drafts[last.results[i].id].scheduled_at )
                         => \E j \in DOMAIN last'.results :
                               last'.results[j].id = last.results[i].id ]_vars

C6_Witness ==
    /\ last.op = "run_scheduler_once"
    /\ Len(publish_logs) = 3
    /\ ~publish_logs[1].success
    /\ publish_logs[2].success
    /\ publish_logs[2].draft_id # publish_logs[1].draft_id
    /\ publish_logs[3].success
    /\ publish_logs[3].draft_id = publish_logs[1].draft_id
    /\ drafts[publish_logs[1].draft_id].status = "published"

----------------------------------------------------------------------------
(* Properties of publishers that overlap *)

\* the publishers that hold a returned platform call not yet logged
AwaitingLog(draft_id) ==
    {p \in Procs : /\ publishers[p].pc = "create_publish_log"
                   /\ publishers[p].draft.id = draft_id
                   /\ publishers[p].outcome = "ok"}

\* the publishers that passed the checks on a read of the draft and have not
\* written its status yet
PastChecks(draft_id) ==
    {p \in Procs : /\ publishers[p].pc \in {"client_publish", "create_publish_log",
                                            "update_draft_status"}
                   /\ publishers[p].draft.id = draft_id}

\* C7: nothing stands between the read of a draft and the platform call.  A
\* publisher that passed the checks calls the client and logs what came back
\* whatever the row has become meanwhile: every returned call gets its own
\* success row, the status write is unconditional, and no step of one
\* publisher takes another that is past the checks off its course.  Two
\* publishers of one draft, each past the checks on its own read, therefore
\* publish it twice (C7_Witness).
C7_NoPublishLock ==
    /\ [](\A d \in DOMAIN drafts :
            Cardinality(OkCalls(client_calls, d))
              = Cardinality(SuccessRows(publish_logs, d)) + Cardinality(AwaitingLog(d)))
    /\ [][ /\ \A d \in DOMAIN drafts :
                \A p \in PastChecks(d) :
                   last'.user # p => /\ p \in PastChecks(d)'
                                     /\ publishers'[p] = publishers[p]
           /\ last'.op = "client_publish"
                => /\ Len(client_calls') = Len(client_calls) + 1
                   /\ client_calls'[Len(client_calls')].draft_id = last'.id
                   /\ drafts' = drafts
           /\ last'.op = "update_draft_status"
                => /\ drafts'[last'.id].status = "published"
                   /\ drafts'[last'.id].scheduled_at = NoTime ]_vars

\* two scheduler jobs overlapped on a draft that was scheduled once: each has
\* had its platform call return and its success row written
C7_Witness ==
    \E d \in DOMAIN drafts :
       /\ Cardinality(OkCalls(client_calls, d)) = 2
       /\ Cardinality(SuccessRows(publish_logs, d)) = 2
       /\ \A p \in Schedulers : /\ publishers[p].pc = "update_draft_status"
                                /\ publishers[p].draft.id = d
       /\ publishers["bot"].pc = "idle"
       /\ drafts[d].status = "scheduled"
       /\ Cardinality({i \in DOMAIN undo_actions :
                          undo_actions[i].action_type = "draft_status_update"}) = 1

\* a scheduler job and the bot's publish overlapped
C7_WitnessManual ==
    \E d \in DOMAIN drafts :
       /\ Cardinality(OkCalls(client_calls, d)) = 2
       /\ Cardinality(SuccessRows(publish_logs, d)) = 2
       /\ publishers["scheduler_a"].pc = "update_draft_status"
       /\ publishers["scheduler_b"].pc = "idle"
       /\ last.op = "update_draft_status"
       /\ last.user = "bot"

----------------------------------------------------------------------------
(* Properties of ingest_entry and undo_last_action *)

\* the entries of a user whose stored text normalizes as the given text does
SameNormalized(user_id, text) ==
    {e \in DOMAIN entries :
        /\ entries[e].user_id = user_id
        /\ normalized(entries[e].text) = normalized(text)}

\* C8: no two stored entries have the same user and the same normalized text;
\* an ingest of a text that normalizes as a stored entry of the same user does
\* is rejected as a duplicate naming that entry, and the same text from a user
\* who has no such entry is accepted.
C8_NoDuplicateEntries ==
    /\ [](\A e1, e2 \in DOMAIN entries :
            ( /\ entries[e1].user_id = entries[e2].user_id
              /\ normalized(entries[e1].text) = normalized(entries[e2].text) )
            => e1 = e2)
    /\ [][ ( last'.op = "ingest_entry" /\ strip(last'.text) # <<>> )
           => IF SameNormalized(last'.user, last'.text) # {}
              THEN /\ ~last'.ok
                   /\ last'.reason = "duplicate"
                   /\ last'.id \in SameNormalized(last'.user, last'.text)
                   /\ entries' = entries
              ELSE /\ last'.ok
                   /\ last'.id \in DOMAIN entries' \ DOMAIN entries
                   /\ entries'[last'.id].user_id = last'.user ]_vars

C8_Witness ==
    /\ last.op = "ingest_entry"
    /\ last.reason = "duplicate"
    /\ entries[last.id].text # strip(last.text)
    /\ \E e \in DOMAIN entries :
          /\ entries[e].user_id # last.user
          /\ normalized(entries[e].text) = normalized(last.text)
    /\ \E i \in DOMAIN undo_actions : undo_actions[i].undone

\* C9: an ingest is rejected only as empty (the text strips to nothing) or as a
\* duplicate, and then changes neither the entries nor the undo log; an accepted
\* ingest adds exactly one entry and appends exactly one open 'entry_create'
\* undo record of that user naming it.
C9_IngestAllOrNothing ==
    [][ last'.op = "ingest_entry"
        => /\ (strip(last'.text) = <<>>) <=> (last'.reason = "empty")
           /\ IF last'.ok
              THEN /\ DOMAIN entries' = DOMAIN entries \cup {last'.id}
                   /\ last'.id \notin DOMAIN entries
                   /\ \A e \in DOMAIN entries : entries'[e] = entries[e]
                   /\ entries'[last'.id].user_id = last'.user
                   /\ entries'[last'.id].text = strip(last'.text)
                   /\ undo_actions' = Append(undo_actions,
                          [user_id     |-> last'.user,
                           action_type |-> "entry_create",
                           payload     |-> [NoPayload EXCEPT !.ref = last'.id],
                           undone      |-> FALSE])
              ELSE /\ last'.reason \in {"empty", "duplicate"}
                   /\ entries' = entries
                   /\ undo_actions' = undo_actions
                   /\ sqlite_sequence' = sqlite_sequence ]_vars

C9_Witness ==
    /\ last.op = "ingest_entry"
    /\ last.ok
    /\ Len(undo_actions) = 3
    /\ undo_actions[3].payload.ref = last.id
    /\ undo_actions[3].user_id = last.user
    /\ undo_actions[1].undone
    /\ Cardinality(DOMAIN entries) = 2

C9_WitnessRejected ==
    /\ last.op = "ingest_entry"
    /\ last.reason = "empty"
    /\ last.text # <<>>
    /\ undo_actions # <<>>

\* C10: an undo that directly follows an accepted ingest of the same user
\* succeeds and removes that entry: it is found neither by id nor by the user
\* and hash, and the same text is accepted again.
C10_UndoIngest ==
    [][ ( /\ last.op = "ingest_entry"
          /\ last.ok
          /\ last'.op = "undo_last_action"
          /\ last'.user = last.user )
        => /\ last'.ok
           /\ last'.reason = "entry_create"
           /\ last.id \in DOMAIN entries
           /\ last.id \notin DOMAIN entries'
           /\ get_entry_by_hash(World', last.user, sha256(normalized(last.text))) = NoId
           /\ SameNormalized(last.user, last.text)' = {}
           /\ ingest_entry(World', last.user, last.text).res.ok ]_vars

C10_Witness ==
    /\ last.op = "undo_last_action"
    /\ last.ok
    /\ last.reason = "entry_create"
    /\ undo_actions[last.id].payload.ref \notin DOMAIN entries
    /\ entries # <<>>
    /\ \A e \in DOMAIN entries : entries[e].user_id # last.user

----------------------------------------------------------------------------
(* Properties of undo_last_action on drafts *)

\* C11: a status change by set_draft_decision (approve, reject) or
\* schedule_draft takes effect, and undo_last_action of the same user right
\* after it succeeds and leaves the draft with the status and scheduled_at it
\* had before the change.
C11_UndoRestoresStatus ==
    [][ ( last'.op \in {"set_draft_decision", "schedule_draft"} /\ last'.ok )
        => LET d == last'.id
               r == undo_last_action(World', last'.user)
           IN /\ d \in DOMAIN drafts
              /\ IF last'.op = "schedule_draft"
                 THEN /\ drafts'[d].status = "scheduled"
                      /\ drafts'[d].scheduled_at = last'.now
                 ELSE /\ drafts'[d].status = last'.text
                      /\ drafts'[d].scheduled_at = drafts[d].scheduled_at
              /\ r.res.ok
              /\ r.res.reason = "draft_status_update"
              /\ r.w.drafts[d].status = drafts[d].status
              /\ r.w.drafts[d].scheduled_at = drafts[d].scheduled_at
              /\ r.w.drafts = drafts ]_vars

\* an undo has just put a draft back to scheduled at the later time, after a
\* change made from that state
C11_Witness ==
    /\ last.op = "undo_last_action"
    /\ last.ok
    /\ last.reason = "draft_status_update"
    /\ LET a == undo_actions[last.id] IN
       /\ a.payload.previous_status = "scheduled"
       /\ a.payload.previous_scheduled_at = 2
       /\ a.user_id = "u2"
       /\ drafts[a.payload.ref].status = "scheduled"
       /\ drafts[a.payload.ref].scheduled_at = 2
       /\ last.id = Len(undo_actions)

\* the open actions of a user, and the newest of them
OpenActions(user_id) ==
    {i \in DOMAIN undo_actions : undo_actions[i].user_id = user_id /\ ~undo_actions[i].undone}

IsNewestOpen(i, user_id) ==
    i \in OpenActions(user_id) /\ \A j \in OpenActions(user_id) : j <= i

HandledTypes == {"entry_create", "draft_create", "draft_status_update"}

\* C12: undo_last_action fails exactly when the user has no open action
\* ('nothing_to_undo') or the newest open one is of a type without handler
\* (unsupported), and then no entry, draft, log row or undo record, undone
\* flags included, is changed.
C12_FailedUndoChangesNothing ==
    [][ last'.op = "undo_last_action"
        => LET u == last'.user IN
           /\ OpenActions(u) = {}
                => ~last'.ok /\ last'.reason = "nothing_to_undo"
           /\ \A i \in OpenActions(u) :
                ( IsNewestOpen(i, u) /\ undo_actions[i].action_type \notin HandledTypes )
                   => /\ ~last'.ok
                      /\ last'.reason = "unsupported_undo_action"
                      /\ last'.id = i
           /\ \A i \in OpenActions(u) :
                ( IsNewestOpen(i, u) /\ undo_actions[i].action_type \in HandledTypes )
                   => last'.ok
           /\ ~last'.ok
                => /\ entries' = entries
                   /\ drafts' = drafts
                   /\ publish_logs' = publish_logs
                   /\ undo_actions' = undo_actions
                   /\ sqlite_sequence' = sqlite_sequence ]_vars

\* an undo has just failed on an unhandled row that lies on top of an open
\* draft_create of the same user, with the draft still there
C12_Witness ==
    /\ last.op = "undo_last_action"
    /\ ~last.ok
    /\ last.reason = "unsupported_undo_action"
    /\ ~undo_actions[last.id].undone
    /\ \E i \in OpenActions(last.user) :
          /\ i < last.id
          /\ undo_actions[i].action_type = "draft_create"
          /\ undo_actions[i].payload.ref \in DOMAIN drafts
    /\ \E i \in DOMAIN undo_actions : undo_actions[i].undone

\* the undo records a step marks undone
MarkedIn(before, after) ==
    {i \in DOMAIN before : ~before[i].undone /\ after[i].undone}

\* C13: an undo record is marked undone only by a step that applied its
\* revert: the entry or draft it names existed and is deleted, or the draft it
\* names existed and has the recorded previous status and scheduled_at again.
C13_MarkedOnlyIfReverted ==
    [][ \A i \in MarkedIn(undo_actions, undo_actions') :
          LET a   == undo_actions[i]
              ref == a.payload.ref
          IN /\ last'.op = "undo_last_action"
             /\ a.action_type \in HandledTypes
             /\ ref # NoId
             /\ a.action_type = "entry_create"
                  => ref \in DOMAIN entries /\ ref \notin DOMAIN entries'
             /\ a.action_type = "draft_create"
                  => ref \in DOMAIN drafts /\ ref \notin DOMAIN drafts'
             /\ a.action_type = "draft_status_update"
                  => /\ a.payload.previous_status # ""
                     /\ ref \in DOMAIN drafts
                     /\ ref \in DOMAIN drafts'
                     /\ drafts'[ref].status = a.payload.previous_status
                     /\ drafts'[ref].scheduled_at = a.payload.previous_scheduled_at ]_vars

\* C14: an undo_last_action(user) call takes the open action of that user with
\* the highest id, applies the revert of that action and of no other, and marks
\* that record alone; a record once undone stays undone and is not taken again;
\* records of other users are left as they are; undo calls of one user in a row
\* take actions of descending id.
C14_UndoNewestFirst ==
    [][ /\ Len(undo_actions') >= Len(undo_actions)
        /\ \A i \in DOMAIN undo_actions :
              /\ undo_actions[i].undone => undo_actions'[i].undone
              /\ [undo_actions'[i] EXCEPT !.undone = FALSE]
                    = [undo_actions[i] EXCEPT !.undone = FALSE]
        /\ last'.op = "undo_last_action"
             => LET u == last'.user IN
                /\ Len(undo_actions') = Len(undo_actions)
                /\ OpenActions(u) = {} => MarkedIn(undo_actions, undo_actions') = {}
                /\ \A i \in OpenActions(u) :
                     IsNewestOpen(i, u)
                       => LET a   == undo_actions[i]
                              ref == a.payload.ref
                          IN /\ last'.ok
                             /\ last'.id = i
                             /\ MarkedIn(undo_actions, undo_actions') = {i}
                             /\ a.action_type = "entry_create"
                                  => /\ DOMAIN entries' = DOMAIN entries \ {ref}
                                     /\ \A d \in DOMAIN drafts' : drafts'[d] = drafts[d]
                             /\ a.action_type = "draft_create"
                                  => /\ entries' = entries
                                     /\ DOMAIN drafts' = DOMAIN drafts \ {ref}
                                     /\ \A d \in DOMAIN drafts' : drafts'[d] = drafts[d]
                             /\ a.action_type = "draft_status_update"
                                  => /\ entries' = entries
                                     /\ DOMAIN drafts' = DOMAIN drafts
                                     /\ \A d \in DOMAIN drafts \ {ref} : drafts'[d] = drafts[d]
                                     /\ ref \in DOMAIN drafts
                                          => /\ drafts'[ref].status = a.payload.previous_status
                                             /\ drafts'[ref].scheduled_at
                                                  = a.payload.previous_scheduled_at
                /\ ( /\ last.op = "undo_last_action"
                     /\ last.user = u
                     /\ last.ok
                     /\ last'.ok )
                     => last'.id < last.id ]_vars

\* u1 has walked back to the creation of the entry while a later action of u2
\* stays open
C14_Witness ==
    /\ last.op = "undo_last_action"
    /\ last.user = "u1"
    /\ last.ok
    /\ last.id = 1
    /\ Len(undo_actions) >= 3
    /\ undo_actions[1].undone
    /\ undo_actions[2].undone
    /\ \E i \in DOMAIN undo_actions :
          /\ i > 2
          /\ undo_actions[i].user_id = "u2"
          /\ ~undo_actions[i].undone

----------------------------------------------------------------------------
(* Properties of draft generation *)

\* the supported platforms a generate_drafts call was asked for, in order
Requested(platform_list) ==
    SelectSeq(IF platform_list # <<>> THEN platform_list ELSE enabled_platforms(config),
              LAMBDA platform : platform \in PlatformSet)

AllRouterCallsFailed(calls) == \A i \in DOMAIN calls : ~calls[i].ok

\* the drafts a step stored, oldest first
NewDraftIds(before, after) == (before.drafts + 1) .. after.drafts

\* the fallback draft of a platform for an entry nobody could summarize
FallbackContent(entry_id, platform) ==
    _deterministic_draft(platform, prefix(entries[entry_id].text, SummaryChars),
                         entries[entry_id].text, get_limit(config, platform))

\* what generate_drafts does for a known entry when every router call fails,
\* but for the length of the content
FallbackDrafts(non_empty(_)) ==
        ( /\ last'.op = "generate_drafts"
          /\ last'.id \in DOMAIN entries
          /\ AllRouterCallsFailed(router_calls') )
        => LET wanted == Requested(last'.text)
               first  == sqlite_sequence.drafts
           IN /\ last'.ok
              /\ Len(last'.results) = Len(wanted)
              /\ sqlite_sequence'.drafts = first + Len(wanted)
              /\ DOMAIN drafts' = DOMAIN drafts \cup NewDraftIds(sqlite_sequence, sqlite_sequence')
              /\ \A d \in DOMAIN drafts : drafts'[d] = drafts[d]
              /\ \A i \in DOMAIN wanted :
                    LET draft == drafts'[first + i] IN
                    /\ last'.results[i].id = first + i
                    /\ last'.results[i].ok
                    /\ draft.entry_id = last'.id
                    /\ draft.platform = wanted[i]
                    /\ draft.status = "pending"
                    /\ draft.content = FallbackContent(last'.id, wanted[i])
                    /\ validate_draft(wanted[i], draft.content, config).ok
                    /\ non_empty(wanted[i]) => draft.content # <<>>

\* C15: when every router call raises a provider error, generate_drafts for a
\* known entry still returns ok with exactly one new pending draft per requested
\* supported platform, in order; each draft holds the deterministic fallback
\* content, passes length validation, and is non-empty wherever the platform's
\* limit is at least 1 (a limit of 0 admits only the empty draft); no exception
\* leaves the call.
C15_FallbackDrafts ==
    [][FallbackDrafts(LAMBDA platform : get_limit(config, platform) >= 1)]_vars

\* C15 as stated: the fallback content is non-empty whatever the limit
C15_FallbackDraftsNeverEmpty ==
    [][FallbackDrafts(LAMBDA platform : TRUE)]_vars

C15_Witness ==
    /\ last.op = "generate_drafts"
    /\ last.ok
    /\ config.llm_enabled
    /\ Len(router_calls) = 3
    /\ AllRouterCallsFailed(router_calls)
    /\ Len(last.results) = 2
    /\ \E d \in DOMAIN drafts :
          /\ drafts[d].platform = "linkedin"
          /\ drafts[d].status = "pending"
          /\ Len(drafts[d].content) = get_limit(config, "linkedin")
          /\ SubSeq(drafts[d].content, Len(drafts[d].content) - 2, Len(drafts[d].content))
                = Ellipsis

EndsWithEllipsis(content) ==
    /\ Len(content) >= 3
    /\ SubSeq(content, Len(content) - 2, Len(content)) = Ellipsis

\* C16: every stored draft (generate_drafts, regenerate_draft and edit_draft
\* are the only calls that store one) is no longer than its platform's limit,
\* whatever the router answered or the user typed and for every limit >= 0;
\* with the configuration unchanged publish_draft therefore never answers
\* invalid_draft.
C16_StoredDraftsFit ==
    /\ [](\A d \in DOMAIN drafts : FitsLimit(d))
    /\ [][ last'.op = "publish_draft" => last'.reason # "invalid_draft" ]_vars

C16_Witness ==
    /\ last.op = "publish_draft"
    /\ last.ok
    /\ last.id = 2
    /\ drafts[2].status = "published"
    /\ drafts[2].summary = <<>>
    /\ EndsWithEllipsis(drafts[2].content)
    /\ Len(drafts[2].content) = get_limit(config, drafts[2].platform)
    /\ drafts[1].status = "rejected"

\* the router calls of the last orchestrator call that asked for a draft of a platform
DraftCalls(calls, platform) ==
    SelectSeq(calls, LAMBDA c : c.stage.stage = "draft" /\ c.stage.platform = platform)

\* the content the first router answer gives a platform: the stripped text, or
\* the fallback (already within the limit) after a provider error
FirstContent(call, entry_id, draft) ==
    IF call.ok THEN strip(call.text)
    ELSE _deterministic_draft(draft.platform, draft.summary, entries[entry_id].text,
                              get_limit(config, draft.platform))

\* C17: in one generate_drafts call the router is asked for a platform's
\* draft at most twice: once for the draft, and once more for a rewrite exactly
\* when generation is enabled and the first content is longer than the limit.
\* When the rewrite fails or is still too long the stored content is the
\* truncation of what is at hand, with no further router call.
C17_AtMostOneRewrite ==
    [][ ( /\ last'.op = "generate_drafts"
          /\ last'.ok )
        => \A i \in DOMAIN last'.results :
             LET draft    == drafts'[last'.results[i].id]
                 limit    == get_limit(config, draft.platform)
                 calls    == DraftCalls(router_calls', draft.platform)
                 first    == strip(calls[1].text)
                 rewrite  == strip(calls[2].text)
             IN /\ Len(calls) <= 2
                /\ ~config.llm_enabled => calls = <<>>
                /\ Len(calls) >= 1 => ~calls[1].stage.retry
                /\ Len(calls) = 2 <=>
                      /\ calls # <<>>
                      /\ calls[1].ok
                      /\ Len(first) > limit
                /\ Len(calls) = 2 =>
                      /\ calls[2].stage.retry
                      /\ draft.content =
                            IF calls[2].ok /\ Len(rewrite) <= limit THEN rewrite
                            ELSE IF calls[2].ok THEN truncate_to_limit(rewrite, limit)
                            ELSE truncate_to_limit(first, limit)
                /\ Len(calls) = 1 =>
                      draft.content = FirstContent(calls[1], last'.id, draft)
      ]_vars

C17_Witness ==
    /\ last.op = "generate_drafts"
    /\ last.ok
    /\ Len(DraftCalls(router_calls, "x")) = 2
    /\ router_calls[Len(router_calls)].ok
    /\ Len(strip(router_calls[Len(router_calls)].text)) > get_limit(config, "x")
    /\ get_limit(config, "x") > 3
    /\ \E d \in DOMAIN drafts :
          /\ drafts[d].platform = "x"
          /\ EndsWithEllipsis(drafts[d].content)
          /\ Len(drafts[d].content) <= get_limit(config, "x")

----------------------------------------------------------------------------
(* Properties of the provider router *)

\* the route names a registered provider
Registered(route) == HasColon(route) /\ parse_route(route).provider \in Providers

\* the routes among the first n that name a registered provider, in order
TriedOf(routes, n) == SelectSeq(SubSeq(routes, 1, n), Registered)

RoutesOf(calls) == [k \in DOMAIN calls |-> calls[k].route]

\* C18: LLMRouter.generate walks the stage's routes in order, invokes the
\* provider of each route that names a registered one exactly once and none
\* for the others, and stops at the first provider that returns: it returns
\* that result, invokes no provider for a later route, and writes exactly one
\* llm_calls row, for the call that returned; a call that fails writes no row.
C18_FirstSuccessWins ==
    [][ last'.op = "router_generate"
        => LET routes == last'.text
               calls  == provider_calls'
           IN \E n \in 0..Len(routes) :
                /\ RoutesOf(calls) = TriedOf(routes, n)
                /\ \A k \in DOMAIN calls :
                      /\ calls[k].provider = parse_route(calls[k].route).provider
                      /\ calls[k].model = parse_route(calls[k].route).model
                      /\ k < Len(calls) => calls[k].outcome # "ok"
                /\ last'.ok =>
                      /\ n >= 1
                      /\ Registered(routes[n])
                      /\ calls[Len(calls)].outcome = "ok"
                      /\ last'.clients = {LLMResult(parse_route(routes[n]).provider,
                                                    parse_route(routes[n]).model)}
                      /\ llm_calls' = Append(llm_calls,
                                             [stage    |-> last'.user,
                                              provider |-> parse_route(routes[n]).provider,
                                              model    |-> parse_route(routes[n]).model])
                /\ ~last'.ok =>
                      /\ \A k \in DOMAIN calls : calls[k].outcome # "ok"
                      /\ n = Len(routes) \/ ~HasColon(routes[n + 1])
                      /\ last'.clients = {}
                      /\ llm_calls' = llm_calls
      ]_vars

C18_Witness ==
    /\ last.op = "router_generate"
    /\ last.ok
    /\ last.text = <<RouteA, RouteGone, RouteB, RouteBad>>
    /\ Len(provider_calls) = 2
    /\ provider_calls[1].outcome = "timeout"
    /\ provider_calls[2].provider = <<"b">>
    /\ provider_calls[2].outcome = "ok"
    /\ Len(llm_calls) = 1
    /\ llm_calls[1].provider = <<"b">>

\* the first place at or after from where part begins in message; 0 if none
RECURSIVE Find(_, _, _)
Find(message, part, from) ==
    IF from + Len(part) - 1 > Len(message) THEN 0
    ELSE IF SubSeq(message, from, from + Len(part) - 1) = part THEN from
    ELSE Find(message, part, from + 1)

RECURSIVE ContainsInOrder(_, _, _)
ContainsInOrder(message, parts, from) ==
    \/ parts = <<>>
    \/ /\ Find(message, Head(parts), from) # 0
       /\ ContainsInOrder(message, Tail(parts),
                          Find(message, Head(parts), from) + Len(Head(parts)))

\* what generate notes of a route that did not succeed
FailureOf(route, calls) ==
    IF Registered(route)
    THEN route_error(route, calls[CHOOSE k \in DOMAIN calls : calls[k].route = route].outcome)
    ELSE route \o <<":", " ", "provider not available">>

FailuresOf(routes, calls) == [i \in DOMAIN routes |-> FailureOf(routes[i], calls)]

\* C19: when no route succeeds, generate raises a provider error whose
\* message holds the failure message of every route in order, returns no
\* result and writes no llm_calls row.
C19_AllRoutesFailed ==
    [][ ( /\ last'.op = "router_generate"
          /\ ~last'.ok )
        => /\ last'.reason = "ProviderError"
           /\ ContainsInOrder(last'.results, FailuresOf(last'.text, provider_calls'), 1)
           /\ last'.clients = {}
           /\ llm_calls' = llm_calls
      ]_vars

----------------------------------------------------------------------------
(* Properties of summarize_entry *)

Fallback(entry_id) == prefix(entries[entry_id].text, SummaryChars)

----------------------------------------------------------------------------
(* Properties of the stored rows *)

\* the drafts inserted before a step, and in it
CreatedBefore == 1..Len(created_drafts)

CreatedInStep == (Len(created_drafts) + 1)..Len(created_drafts')

\* C21: every newly created draft gets a version strictly greater than the
\* version of every draft created before it for the same entry and platform,
\* whether or not that draft is still stored.
C21_VersionsIncrease ==
    [][ \A d \in CreatedInStep :
          /\ drafts'[d].version = created_drafts'[d].version
          /\ \A c \in CreatedBefore :
                ( /\ created_drafts[c].entry_id = created_drafts'[d].entry_id
                  /\ created_drafts[c].platform = created_drafts'[d].platform )
                => created_drafts'[d].version > created_drafts[c].version
      ]_vars

\* C22: edit_draft and regenerate_draft on a stored draft set its status to
\* rejected and leave the rest of the row as it was, store exactly one new
\* pending draft of the same entry and platform with a higher version, and
\* record one draft_create undo action of the caller for the new draft.
C22_Supersede ==
    [][ ( /\ last'.op \in {"edit_draft", "regenerate_draft"}
          /\ last'.id \in DOMAIN drafts )
        => LET old == last'.id
               new == sqlite_sequence.drafts + 1
           IN /\ last'.ok
              /\ last'.results = <<Result(TRUE, "", new)>>
              /\ DOMAIN drafts' = DOMAIN drafts \cup {new}
              /\ new \notin DOMAIN drafts
              /\ drafts'[old] = [drafts[old] EXCEPT !.status = "rejected"]
              /\ \A d \in DOMAIN drafts \ {old} : drafts'[d] = drafts[d]
              /\ drafts'[new].status = "pending"
              /\ drafts'[new].entry_id = drafts[old].entry_id
              /\ drafts'[new].platform = drafts[old].platform
              /\ drafts'[new].version > drafts[old].version
              /\ undo_actions' = Append(undo_actions,
                     [user_id     |-> last'.user,
                      action_type |-> "draft_create",
                      payload     |-> [NoPayload EXCEPT !.ref = new],
                      undone      |-> FALSE])
      ]_vars

Terminal == {"published", "rejected"}

\* C23: a draft whose status is published or rejected keeps that status in
\* every later step, and no client is asked to publish a rejected draft.
C23_TerminalStatuses ==
    [][ /\ \A d \in DOMAIN drafts \cap DOMAIN drafts' :
              drafts[d].status \in Terminal => drafts'[d].status = drafts[d].status
        /\ \A i \in DOMAIN Gained(client_calls, client_calls') :
              LET call == Gained(client_calls, client_calls')[i] IN
              call.draft_id \in DOMAIN drafts => drafts[call.draft_id].status # "rejected"
      ]_vars

\* C24: the publish log only grows: every row written stays as it is.
C24_PublishLogAppendOnly ==
    [][ Extends(publish_logs, publish_logs') ]_vars

\* the actions a step marked undone
MarkedInStep ==
    {i \in DOMAIN undo_actions : ~undo_actions[i].undone /\ undo_actions'[i].undone}

\* C25: a draft row leaves storage only in an undo_last_action step that
\* reverts the draft_create action recorded for that draft.
C25_DraftsLeaveByOwnUndo ==
    [][ \A d \in DOMAIN drafts \ DOMAIN drafts' :
          /\ last'.op = "undo_last_action"
          /\ \E i \in MarkedInStep :
                /\ undo_actions[i].action_type = "draft_create"
                /\ undo_actions[i].payload.ref = d
      ]_vars

----------------------------------------------------------------------------
(* Properties of publish_approved_queue *)

\* the approved drafts of a user's entries
ApprovedOf(user_id) ==
    {d \in DOMAIN drafts :
        /\ drafts[d].status = "approved"
        /\ entries[drafts[d].entry_id].user_id = user_id}

CallsFor(calls, draft_id) == {i \in DOMAIN calls : calls[i].draft_id = draft_id}

\* C26: publish_approved_queue(user) runs publish_draft, which the approval
\* gate lets through without force, once for each approved draft of the
\* user's entries and for no other draft: the result is ok with one outcome per
\* such draft, each of them gets exactly one client call and one publish-log
\* row whether or not an earlier one failed, and every other draft is left as
\* it was.
C26_QueuePublishesApproved ==
    [][ last'.op = "publish_approved_queue"
        => LET mine  == ApprovedOf(last'.user)
               calls == Gained(client_calls, client_calls')
               rows  == Gained(publish_logs, publish_logs')
           IN /\ last'.ok
              /\ Len(last'.results) = Cardinality(mine)
              /\ {last'.results[i].id : i \in DOMAIN last'.results} = mine
              /\ \A i \in DOMAIN calls : calls[i].draft_id \in mine
              /\ \A d \in DOMAIN drafts \ mine : drafts'[d] = drafts[d]
              /\ \A i \in DOMAIN last'.results :
                    LET d == last'.results[i].id IN
                    /\ last'.results[i].reason # "approval_required"
                    /\ (FitsLimit(d) /\ drafts[d].platform \in last'.clients)
                         => /\ Cardinality(CallsFor(calls, d)) = 1
                            /\ Cardinality(CallsFor(rows, d)) = 1
                            /\ \A k \in CallsFor(calls, d) :
                                  last'.results[i].ok <=> calls[k].outcome = "ok"
                    /\ drafts'[d].status =
                         IF last'.results[i].ok THEN "published" ELSE "approved"
      ]_vars

C26_Witness ==
    /\ last.op = "publish_approved_queue"
    /\ last.user = "u1"
    /\ Len(last.results) = 2
    /\ ~last.results[1].ok
    /\ last.results[1].reason = "publish_failed"
    /\ last.results[2].ok
    /\ drafts[last.results[1].id].status = "approved"
    /\ drafts[last.results[2].id].status = "published"
    /\ \E d \in DOMAIN drafts :
          /\ entries[drafts[d].entry_id].user_id = "u2"
          /\ drafts[d].status = "approved"

----------------------------------------------------------------------------
(* Properties of the platform clients in dry run *)

\* C27: a platform client called with dry_run=True uses no network, reads no
\* credentials and returns success with its own platform name whatever the
\* content; and under the dry-run setting a publish_draft call whose draft
\* passes the approval gate and validation and has a client ends with the draft
\* 'published' and a successful publish-log row.
C27_DryRunAlwaysSucceeds ==
    [][ /\ (last'.op = "client.publish" /\ last'.force)
            => LET response == last'.results[1]
               IN /\ ~response.network
                  /\ response.getenv = {}
                  /\ response.raises = ""
                  /\ response.success
                  /\ response.dry_run
                  /\ response.platform = last'.user
        /\ ( /\ last'.op = "publish_draft"
             /\ effective_dry_run(World, config)
             /\ last'.id \in DOMAIN drafts
             /\ ~GateClosed(last'.id, last'.force)
             /\ FitsLimit(last'.id)
             /\ drafts[last'.id].platform \in last'.clients )
            => /\ last'.ok
               /\ drafts'[last'.id].status = "published"
               /\ Gained(client_calls, client_calls')
                    = << [draft_id |-> last'.id, outcome |-> "ok"] >>
               /\ Len(publish_logs') = Len(publish_logs) + 1
               /\ publish_logs'[Len(publish_logs')].draft_id = last'.id
               /\ publish_logs'[Len(publish_logs')].success
      ]_vars

\* a dry-run publish of an approved draft, where a live client would have failed
C27_Witness ==
    /\ last.op = "publish_draft"
    /\ config.dry_run
    /\ ~last.force
    /\ last.ok
    /\ drafts[last.id].status = "published"
    /\ drafts[last.id].platform = "threads"
    /\ client_calls = << [draft_id |-> last.id, outcome |-> "ok"] >>

----------------------------------------------------------------------------
(* Properties of truncate_to_limit and validate_draft *)

\* C28: for every text and every limit >= 0, truncate_to_limit returns at most
\* limit characters, returns the text itself when it already fits, and when it
\* cuts under a limit above 3 the result ends with '...'; the result then
\* validates for a platform with that limit; validate_draft is ok exactly when
\* the length is within the limit and hands the text back unaltered.
C28_TruncationFits ==
    last.op = "truncate_to_limit"
    => LET r == last.results[1]
       IN /\ Len(r.truncated) <= r.limit
          /\ Len(last.text) <= r.limit => r.truncated = last.text
          /\ (Len(last.text) > r.limit /\ r.limit > 3) => EndsWithEllipsis(r.truncated)
          /\ r.v2.ok
          /\ r.v2.text = r.truncated
          /\ r.v1.ok <=> Len(last.text) <= r.limit
          /\ r.v1.text = last.text
          /\ r.v1.length = Len(last.text)

\* a cut under a limit above 3 whose trailing blank is dropped before the dots
C28_Witness ==
    /\ last.op = "truncate_to_limit"
    /\ last.results[1].limit > 3
    /\ Len(last.text) > last.results[1].limit
    /\ Len(last.results[1].truncated) < last.results[1].limit
    /\ EndsWithEllipsis(last.results[1].truncated)
    /\ ~last.results[1].v1.ok
    /\ last.results[1].v2.ok

----------------------------------------------------------------------------
(* Properties of capture sessions *)

Combined(buffer, text) == IF buffer = <<>> THEN text ELSE buffer \o <<"\n">> \o text

SessionStep(user_id) ==
    LET before == {s \in sessions : s.user_id = user_id}
        after  == {s \in sessions' : s.user_id = user_id}
        appended(text) ==
            /\ before # {}
            /\ after = {[s EXCEPT !.buffer_text = Combined(@, text)] : s \in before}
            /\ entries' = entries
            /\ drafts' = drafts
    IN /\ sessions' \ after = sessions \ before
       /\ last'.op = "capture"
            => after = {[user_id |-> user_id, buffer_text |-> <<>>]}
       /\ (last'.op = "message_handler" /\ last'.reason = "captured")
            => appended(strip(last'.text))
       /\ ( /\ last'.op = "message_handler"
            /\ last'.text # <<>>
            /\ before # {}
            /\ get_user_state(World, user_id) = {} )
            => last'.reason = "captured"
       /\ (last'.op = "append_capture_text" /\ before # {})
            => last'.ok /\ appended(last'.text)
       /\ (last'.op = "append_capture_text" /\ before = {})
            => ~last'.ok /\ World' = World
       /\ (last'.op = "done" /\ before # {})
            => /\ last'.ok
               /\ after = {}
               /\ {last'.text} = {s.buffer_text : s \in before}
       /\ (last'.op = "done" /\ before = {})
            => ~last'.ok /\ World' = World

\* C29: no user ever has two capture sessions; /capture leaves the user one
\* session with an empty buffer; a message that arrives while the session is
\* active is appended to the buffer after the earlier ones, a newline between
\* them, and stores no entry; append_capture_text without a session changes
\* nothing; /done hands back the buffer and deletes the session; other users'
\* sessions are never touched.
C29_OneSessionPerUser ==
    /\ [](\A s \in sessions, t \in sessions : s.user_id = t.user_id => s = t)
    /\ [][ last'.op \in {"capture", "done", "message_handler", "append_capture_text"}
            => SessionStep(last'.user) ]_vars

\* u1's second message has just been appended while u2 is capturing too
C29_Witness ==
    /\ last.op = "message_handler"
    /\ last.reason = "captured"
    /\ [user_id |-> "u1", buffer_text |-> <<"a", "\n", "b">>] \in sessions
    /\ [user_id |-> "u2", buffer_text |-> <<"b">>] \in sessions
    /\ entries = <<>>

----------------------------------------------------------------------------
(* Properties of user states *)

\* a text message of a user who has a state record has just been handled
FollowUp ==
    /\ last'.op = "message_handler"
    /\ last'.text # <<>>
    /\ get_user_state(World, last'.user) # {}

StateStep(user_id) ==
    LET before == {s \in user_states : s.user_id = user_id}
        after  == {s \in user_states' : s.user_id = user_id}
        row    == CHOOSE s \in before : TRUE
        kept   == /\ row.state = "awaiting_schedule"
                  /\ parse_user_datetime(last'.text).raises # ""
    IN /\ user_states' \ after = user_states \ before
       /\ (last'.op = "callback_handler" /\ last'.text = <<"edit">>)
            => after = {[user_id |-> user_id, state |-> "awaiting_edit",
                         draft_id |-> last'.id]}
       /\ (last'.op = "callback_handler" /\ last'.text = <<"schedule">>)
            => after = {[user_id |-> user_id, state |-> "awaiting_schedule",
                         draft_id |-> last'.id]}
       /\ FollowUp
            => /\ last'.reason = row.state
               /\ last'.id = row.draft_id
               /\ IF kept THEN after = before /\ drafts' = drafts
                          ELSE after = {}
       /\ (last'.op = "message_handler" /\ before = {})
            => /\ last'.reason \notin {"awaiting_edit", "awaiting_schedule"}
               /\ after = {}
               /\ drafts' = drafts

\* C30 as stated: once the next text message of a user with a state record
\* has been routed to its handler, the record is gone.
C30_ClearedOnceRouted ==
    [][ FollowUp => get_user_state(World', last'.user) = {} ]_vars

\* C30, amended: a user has at most one state record; a tap on Edit or
\* Schedule sets it to that action and draft; the user's next text message goes
\* to that handler, and the record is cleared by it unless the message was a
\* schedule time that does not parse, which leaves the record and the drafts as
\* they were; a message of a user without a record is neither edit text nor a
\* schedule time and changes no draft.
C30_ClearedOnceConsumed ==
    /\ [](\A s \in user_states, t \in user_states : s.user_id = t.user_id => s = t)
    /\ [][ last'.op \in {"callback_handler", "message_handler"}
            => StateStep(last'.user) ]_vars

\* u1's schedule time has been taken and the record cleared, u2's record stays
C30_Witness ==
    /\ last.op = "message_handler"
    /\ last.user = "u1"
    /\ last.reason = "awaiting_schedule"
    /\ last.ok
    /\ drafts[last.id].status = "scheduled"
    /\ get_user_state(World, "u1") = {}
    /\ get_user_state(World, "u2") # {}

----------------------------------------------------------------------------
(* Properties of apply_migrations *)

NoRepeats(s) == \A i \in DOMAIN s, j \in DOMAIN s : s[i] = s[j] => i = j

Versions == {MIGRATIONS[i].version : i \in DOMAIN MIGRATIONS}

\* C31: however often apply_migrations runs on a database file, the script of
\* each migration version is executed at most once and the version is recorded
\* once in schema_migrations; after a run every required table is present, no
\* table has gone, every row of every table is as it was, and a run on a
\* migrated file changes nothing.
C31_MigrationsIdempotent ==
    /\ [](NoRepeats(schema.executed) /\ NoRepeats(schema.schema_migrations))
    /\ [][ last'.op = "apply_migrations"
            => /\ REQUIRED_TABLES \subseteq schema'.tables
               /\ schema.tables \subseteq schema'.tables
               /\ {schema'.schema_migrations[i] : i \in DOMAIN schema'.schema_migrations}
                    = Versions
               /\ \A i \in (Len(schema.executed) + 1)..Len(schema'.executed) :
                     \A j \in DOMAIN schema.schema_migrations :
                        schema'.executed[i] # schema.schema_migrations[j]
               /\ [World' EXCEPT !.schema = schema] = World
               /\ Versions \subseteq {schema.schema_migrations[i] :
                                         i \in DOMAIN schema.schema_migrations}
                    => schema' = schema
      ]_vars

\* a run on the file left at version 1, repeated after an entry was stored
C31_Witness ==
    /\ last.op = "apply_migrations"
    /\ entries # <<>>
    /\ schema.executed = <<1, 2>>
    /\ schema.schema_migrations = <<1, 2>>

----------------------------------------------------------------------------
(* Publish-log rows and client invocations *)

\* a publish_draft call that gained no client call leaves the log and the
\* drafts as they were; one that gained a client call gained one log row
LogOnlyWhenInvoked ==
    last'.op = "publish_draft"
    => /\ last'.reason \in {"draft_not_found", "approval_required", "invalid_draft",
                            "missing_platform_client"}
         => /\ ~last'.ok
            /\ client_calls' = client_calls
            /\ publish_logs' = publish_logs
            /\ drafts' = drafts
       /\ Len(publish_logs') - Len(publish_logs) = Len(client_calls') - Len(client_calls)
       /\ Len(client_calls') - Len(client_calls) \in {0, 1}

\* C32: publish_draft writes a publish-log row only when it invoked the
\* client: draft_not_found, approval_required, invalid_draft and
\* missing_platform_client write no row, invoke no client and leave the draft
\* unchanged; so there are always as many publish-log rows as client
\* invocations.
C32_LogRowsMatchClientCalls ==
    /\ [](Len(publish_logs) = Len(client_calls))
    /\ [][LogOnlyWhenInvoked]_vars

----------------------------------------------------------------------------
(* Approval before scheduling *)

\* C33: with approval required, a draft becomes 'scheduled' only from
\* 'approved', and a draft that publish_draft without force, the publish queue
\* or a sweep publishes was 'approved' or 'scheduled' before; so every draft
\* published that way has been 'approved' at some earlier point.
C33_ScheduledOnlyFromApproved ==
    [][ config.approval_required
        => \A d \in DOMAIN drafts \cap DOMAIN drafts' :
              /\ (drafts'[d].status = "scheduled" /\ drafts[d].status # "scheduled")
                   => drafts[d].status = "approved"
              /\ ( /\ drafts'[d].status = "published"
                   /\ drafts[d].status # "published"
                   /\ \/ last'.op = "publish_draft" /\ ~last'.force
                      \/ last'.op \in {"publish_approved_queue", "run_scheduler_once"} )
                   => drafts[d].status \in {"approved", "scheduled"}
      ]_vars

----------------------------------------------------------------------------
(* Scheduled delivery *)

\* C34: while sweeps keep running and the client's publish eventually returns,
\* a draft that is 'scheduled' for a time that has passed, fits its limit and
\* has a client, and that nothing else changes, is eventually 'published'.
C34_ScheduledIsDelivered ==
    \A d \in 1..2 :
        (d \in DOMAIN drafts /\ drafts[d].status = "scheduled")
            ~> (d \in DOMAIN drafts /\ drafts[d].status = "published")

\* a draft delivered by a later sweep after a sweep that failed for it
C34_Witness ==
    /\ last.op = "update_draft_status"
    /\ \E d \in DOMAIN drafts :
          /\ drafts[d].status = "published"
          /\ FailureRows(publish_logs, d) # {}
          /\ \E i \in SuccessRows(publish_logs, d) :
                \A j \in FailureRows(publish_logs, d) : j < i

----------------------------------------------------------------------------
(* Drafting without generation *)

\* '[PLATFORM] <summary-or-text>' cut to the limit of the platform
Deterministic(platform, summary, entry_text) ==
    truncate_to_limit(<<"[">> \o upper(platform) \o <<"]", " ">>
                          \o (IF summary # <<>> THEN summary ELSE entry_text),
                      config.platform_limits[platform])

NewDrafts == DOMAIN drafts' \ DOMAIN drafts

\* C35: with generation disabled in the settings or no router supplied,
\* summarize_entry, generate_drafts and regenerate_draft call the router zero
\* times and write no LLM call-log row; the summary is the first 300 characters
\* of the entry text, and each draft is '[PLATFORM] <summary-or-text>' cut to
\* the limit of its platform.
C35_FallbackIsDeterministic ==
    [][ last'.op \in {"summarize_entry", "generate_drafts", "regenerate_draft"}
        => /\ router_calls' = <<>>
           /\ provider_calls' = <<>> \/ provider_calls' = provider_calls
           /\ llm_calls' = llm_calls
           /\ (last'.op = "summarize_entry" /\ last'.ok)
                 => last'.text = prefix(entries[last'.id].text, SummaryChars)
           /\ last'.op = "generate_drafts"
                 => \A d \in NewDrafts :
                      LET text == entries[drafts'[d].entry_id].text IN
                      /\ drafts'[d].summary = prefix(text, SummaryChars)
                      /\ drafts'[d].content =
                            Deterministic(drafts'[d].platform, prefix(text, SummaryChars), text)
           /\ last'.op = "regenerate_draft"
                 => \A d \in NewDrafts :
                      drafts'[d].content =
                          Deterministic(drafts'[d].platform, drafts[last'.id].summary,
                                        entries[drafts'[d].entry_id].text) ]_vars

\* a router was at hand but the settings disable generation: a regenerated
\* draft of an entry longer than a summary
C35_Witness ==
    /\ last.op = "regenerate_draft" /\ last.ok
    /\ ~config.llm_enabled
    /\ \E d \in DOMAIN drafts :
          /\ d = sqlite_sequence.drafts
          /\ Len(entries[drafts[d].entry_id].text) > SummaryChars
          /\ drafts[d].status = "pending"
          /\ drafts[d].content # <<>>

----------------------------------------------------------------------------
(* The two writes of set_draft_decision *)

\* C36: set_draft_decision records the draft's prior status and time in an
\* undo entry before it changes the status: in no state, a stop between the
\* two committed writes included, is the status changed while the
\* 'draft_status_update' undo record of the call is missing.
C36_UndoRecordedFirst ==
    \A p \in Procs :
        publishers[p].pc = "decision_undo"
            => \E i \in DOMAIN undo_actions :
                  undo_actions[i] = [user_id     |-> publishers[p].user,
                                     action_type |-> "draft_status_update",
                                     payload     |-> publishers[p].previous,
                                     undone      |-> FALSE]

----------------------------------------------------------------------------
(* The weekly cap of the legacy pipeline *)

LinkedInSuccess(row) == row.platform = "linkedin" /\ row.success

\* successful LinkedIn publishes of the last 7 days among the first n log rows
RecentSuccesses(log, n, now) ==
    Cardinality({i \in 1..n : LinkedInSuccess(log[i])
                                /\ log[i].timestamp >= now - WindowDays})

GainedRows == (Len(legacy.publish_logs) + 1)..Len(legacy'.publish_logs)

----------------------------------------------------------------------------
(* Undo of a new version *)

\* C38: undo_last_action right after an edit_draft or regenerate_draft of the
\* same user deletes the draft that call created, and the draft it replaced
\* stays 'rejected': its earlier status is not restored.
C38_UndoOfVersionIsPartial ==
    [][ ( /\ last.op \in {"edit_draft", "regenerate_draft"} /\ last.ok
          /\ last'.op = "undo_last_action" /\ last'.user = last.user )
        => /\ last'.ok /\ last'.reason = "draft_create"
           /\ sqlite_sequence.drafts \in DOMAIN drafts
           /\ sqlite_sequence.drafts \notin DOMAIN drafts'
           /\ last.id \in DOMAIN drafts'
           /\ drafts'[last.id].status = "rejected"
           /\ DOMAIN drafts' = DOMAIN drafts \ {sqlite_sequence.drafts} ]_vars

\* a pending draft was replaced and the replacement undone: the draft is
\* left rejected and nothing replaces it
C38_Witness ==
    /\ last.op = "undo_last_action" /\ last.ok /\ last.reason = "draft_create"
    /\ \E d \in DOMAIN drafts :
          /\ drafts[d].status = "rejected"
          /\ \A e \in DOMAIN drafts \ {d} : drafts[e].platform # drafts[d].platform

----------------------------------------------------------------------------
(* Published drafts and their log rows *)

\* C39: with set_draft_decision called only with 'approved' or 'rejected',
\* every draft whose status is 'published' has a publish-log row with success,
\* whatever sequence of generate, decision, schedule, publish, sweep, edit,
\* regenerate and undo operations was run.
C39_PublishedHasSuccessRow ==
    \A d \in DOMAIN drafts :
        drafts[d].status = "published" => SuccessRows(publish_logs, d) # {}

\* 'published' came back by undo: the draft was published, then rejected, and
\* the rejection was undone
C39_Witness ==
    /\ last.op = "undo_last_action" /\ last.ok /\ last.reason = "draft_status_update"
    /\ \E d \in DOMAIN drafts :
          /\ drafts[d].status = "published"
          /\ undo_actions[last.id].payload.ref = d
          /\ undo_actions[last.id].payload.previous_status = "published"

----------------------------------------------------------------------------
(* Private entries *)

\* C40: through the handlers of the bot no draft is created for an entry
\* flagged private: a message marked #private is stored and not drafted, and
\* /draft takes the newest entry of the user that is not private, so every
\* stored draft belongs to an entry that is not private.
C40_NoDraftOfPrivateEntry ==
    \A d \in DOMAIN drafts :
        /\ drafts[d].entry_id \in DOMAIN entries
        /\ ~entries[drafts[d].entry_id].flags.private

\* the newest entry is private and asked for publishing, and /draft made a
\* draft of the entry before it
C40_Witness ==
    /\ last.op = "draft" /\ last.ok
    /\ \E e, f \in DOMAIN entries :
          /\ e < f
          /\ entries[f].flags.private /\ entries[f].flags.publish
          /\ ~entries[e].flags.private
          /\ last.id = e
          /\ \E d \in DOMAIN drafts : drafts[d].entry_id = e

====
